---------------------------- MODULE Spec2Model ----------------------------
(***************************************************************************)
(* Clearance-based authorization core of GoGovCode: the device registry    *)
(* and its token codec (pkg/models), the clearance and layer model, the    *)
(* policy engine (internal/policy), the audit logger (internal/audit) and  *)
(* the clearance enforcement middleware (api/middleware).                  *)
(*                                                                         *)
(* Go strings that the code takes apart (route patterns, header values)    *)
(* are sequences of one-character strings; strings the code only compares  *)
(* are TLA+ strings.  uint16/uint32 arithmetic keeps its width.            *)
(***************************************************************************)
EXTENDS Integers, Sequences, FiniteSets, TLC

VARIABLES
    devices,      \* DeviceRegistry.devices : device ID -> Device
    tokens,       \* DeviceRegistry.tokens  : token ID -> Device
    regOp,        \* the last registry call and what it returned
    regPre,       \* history: the registry as the last Register call found it
    firstReg,     \* history: the record each ID was first registered with
    policy,       \* Engine.policy: the active policy
    hasRegistry,  \* whether Engine.registry is non-nil
    polOp,        \* the last engine call and what it returned
    polPre,       \* history: the policy that was active when the last load began
    mu,           \* Engine.mu: the reader/writer lock
    loaders,      \* goroutines in LoadFromJSON: where each is, and its locals
    evals,        \* goroutines in Evaluate: where each is, and its locals
    installed,    \* history: every policy that has been the active one
    gateCfg,      \* the ClearanceConfig the middleware was built with
    auditLogger,  \* audit.Logger: the enabled flag and the writers
    gateOut,      \* the last request the middleware handled, and its outcome
    regs,         \* goroutines in Register: where each is, and its locals
    lookups,      \* goroutines in a registry lookup: where each is, what it saw
    fault,        \* the runtime has ended the program: concurrent map access
    logOp,        \* the last call of the audit logger and what it returned
    layerOp,      \* layers given to CanAccessLayer and what it returned
    matchOp       \* a rule and a context given to ruleMatches, and its result

regVars == <<devices, tokens, regOp, regPre, firstReg>>

polVars == <<policy, hasRegistry, polOp, polPre>>

concVars == <<mu, loaders, evals, installed>>

gateVars == <<gateCfg, auditLogger, gateOut>>

raceVars == <<regs, lookups, fault>>

auditVars == <<logOp>>

layerVars == <<layerOp>>

matchVars == <<matchOp>>

vars == <<regVars, polVars, concVars, gateVars, raceVars, auditVars, layerVars, matchVars>>

-----------------------------------------------------------------------------
(* Bounds of the model                                                     *)

MaxRegistered == 3

MaxRules == 2

-----------------------------------------------------------------------------
(* Fixed-width integers                                                    *)

TwoTo16 == 65536

U16(x) == x % TwoTo16

-----------------------------------------------------------------------------
(* pkg/models: clearance, layer, device, token                             *)

ClearanceLevel2 == 33686018
ClearanceLevel3 == 50529027
ClearanceLevel5 == 84215045
ClearanceLevel7 == 117901063
ClearanceLevel9 == 151587081

LayerData == "data"
LayerTransport == "transport"
LayerControl == "control"
LayerApplication == "application"

KnownLayers == {LayerData, LayerTransport, LayerControl, LayerApplication}

TokenOffsetStatus == 0
TokenOffsetConfig == 1
TokenOffsetData == 2

TokenOffsets == {TokenOffsetStatus, TokenOffsetConfig, TokenOffsetData}

TokenBaseAddr == 32768

\* Clearance.Level: the top byte of the 32-bit value.
Level(c) == (c \div 16777216) % 256

IsHigherThan(c, other) == c > other

IsHigherOrEqual(c, other) == c >= other

ValidateClearance(c) == Level(c) >= 2 /\ Level(c) <= 9

layerOrder ==
    (LayerData :> 1) @@ (LayerTransport :> 2) @@
    (LayerControl :> 3) @@ (LayerApplication :> 4)

\* CanAccessLayer allowing upward transfers only, not those within a layer.
CanAccessLayerStrictlyUpward(sourceLayer, targetLayer) ==
    LET sourceOk == sourceLayer \in DOMAIN layerOrder
        targetOk == targetLayer \in DOMAIN layerOrder
    IN  IF ~sourceOk \/ ~targetOk
        THEN FALSE
        ELSE layerOrder[sourceLayer] < layerOrder[targetLayer]

CanAccessLayer(sourceLayer, targetLayer) ==
    LET sourceOk == sourceLayer \in DOMAIN layerOrder
        targetOk == targetLayer \in DOMAIN layerOrder
    IN  IF ~sourceOk \/ ~targetOk
        THEN FALSE
        ELSE layerOrder[sourceLayer] <= layerOrder[targetLayer]

\* Device.ComputeToken: 0x8000 + (d.ID * 3) + uint16(offset), in uint16.
ComputeToken(d, offset) == U16(U16(TokenBaseAddr + U16(d.ID * 3)) + U16(offset))

GetStatusToken(d) == ComputeToken(d, TokenOffsetStatus)

GetConfigToken(d) == ComputeToken(d, TokenOffsetConfig)

GetDataToken(d) == ComputeToken(d, TokenOffsetData)

\* The nil *Device.
NilDevice ==
    [ID |-> -1, Layer |-> "", Class |-> "", Clearance |-> 0, Name |-> "",
     TokenBase |-> 0]

EmptyMap == [x \in {} |-> NilDevice]

\* NewDeviceRegistry
NewDeviceRegistry == [devices |-> EmptyMap, tokens |-> EmptyMap]

\* A map after m[k] = v.
MapSet(m, k, v) == [x \in (DOMAIN m) \cup {k} |-> IF x = k THEN v ELSE m[x]]

\* Register with the existence check left out: the record and the token
\* entries are written whatever the registry holds.
RegisterUnchecked(r, device) ==
    LET d == [device EXCEPT !.TokenBase = U16(TokenBaseAddr + U16(device.ID * 3))]
    IN  [err |-> FALSE,
         devices |-> MapSet(r.devices, d.ID, d),
         tokens |-> MapSet(MapSet(MapSet(r.tokens, GetStatusToken(d), d),
                                  GetConfigToken(d), d),
                           GetDataToken(d), d)]

\* DeviceRegistry.Register: the registry after the call, and whether it
\* returned an error.
Register(r, device) ==
    IF device.ID \in DOMAIN r.devices
    THEN [err |-> TRUE, devices |-> r.devices, tokens |-> r.tokens]
    ELSE LET d == [device EXCEPT
                     !.TokenBase = U16(TokenBaseAddr + U16(device.ID * 3))]
         IN  [err |-> FALSE,
              devices |-> MapSet(r.devices, d.ID, d),
              tokens |-> MapSet(MapSet(MapSet(r.tokens, GetStatusToken(d), d),
                                       GetConfigToken(d), d),
                                GetDataToken(d), d)]

\* DeviceRegistry.GetDevice
GetDevice(r, deviceID) ==
    IF deviceID \notin DOMAIN r.devices
    THEN [err |-> TRUE, device |-> NilDevice]
    ELSE [err |-> FALSE, device |-> r.devices[deviceID]]

\* DeviceRegistry.GetDeviceByToken
GetDeviceByToken(r, tokenID) ==
    IF tokenID \notin DOMAIN r.tokens
    THEN [err |-> TRUE, device |-> NilDevice, offset |-> 0]
    ELSE LET device == r.tokens[tokenID]
         IN  [err |-> FALSE, device |-> device,
              offset |-> U16(tokenID - device.TokenBase) % 3]

\* DeviceRegistry.ListDevices: the registered devices, in no order.
ListDevices(r) == {r.devices[id] : id \in DOMAIN r.devices}

Registry == [devices |-> devices, tokens |-> tokens]

-----------------------------------------------------------------------------
(* Go strings as sequences of characters                                   *)

HasSuffix(s, suffix) ==
    /\ Len(s) >= Len(suffix)
    /\ SubSeq(s, Len(s) - Len(suffix) + 1, Len(s)) = suffix

HasPrefix(s, prefix) ==
    /\ Len(s) >= Len(prefix)
    /\ SubSeq(s, 1, Len(prefix)) = prefix

TrimSuffix(s, suffix) ==
    IF HasSuffix(s, suffix) THEN SubSeq(s, 1, Len(s) - Len(suffix)) ELSE s

TrimPrefix(s, prefix) ==
    IF HasPrefix(s, prefix) THEN SubSeq(s, Len(prefix) + 1, Len(s)) ELSE s

Star == <<"*">>

-----------------------------------------------------------------------------
(* internal/policy: rules, policies, validation, evaluation             *)

EffectAllow == "allow"
EffectDeny == "deny"

\* The nil *Rule, which a JSON null in the rule list decodes to.
NilRule == [nil |-> TRUE]

\* NewEngine: the policy a fresh engine holds.
NewEnginePolicy == [Version |-> "1.0", Rules |-> <<>>]

\* checkConflict: TRUE when it returns a conflict message, FALSE when it
\* returns the empty string.
checkConflict(r1, r2) ==
    /\ r1.Effect # r2.Effect
    /\ r1.Priority = r2.Priority
    /\ \E a \in 1..Len(r1.Routes) : \E b \in 1..Len(r2.Routes) :
          /\ r1.Routes[a] = r2.Routes[b]
          /\ \E m \in 1..Len(r1.Methods) : \E n \in 1..Len(r2.Methods) :
                \/ r1.Methods[m] = r2.Methods[n]
                \/ r1.Methods[m] = "*"
                \/ r2.Methods[n] = "*"

SeqToSet(s) == {s[k] : k \in 1..Len(s)}

\* ValidateRule with the duplicate-ID check left out.
ValidateRuleNoDuplicateCheck(hasReg, r, rule, i, ruleIDs) ==
    IF rule = NilRule THEN "panic: nil rule"
    ELSE IF rule.ID = "" THEN "ID is required"
    ELSE IF rule.Effect # EffectAllow /\ rule.Effect # EffectDeny THEN "invalid effect"
    ELSE IF ~ValidateClearance(rule.RequiredClearance) /\ rule.RequiredClearance # 0
         THEN "invalid clearance level"
    ELSE IF \E k \in 1..Len(rule.AllowedLayers) : rule.AllowedLayers[k] \notin KnownLayers
         THEN "invalid layer"
    ELSE IF /\ hasReg
            /\ \E k \in 1..Len(rule.AllowedDevices) :
                  GetDevice(r, rule.AllowedDevices[k]).err
         THEN "unknown device"
    ELSE IF /\ hasReg
            /\ \E k \in 1..Len(rule.DeniedDevices) :
                  GetDevice(r, rule.DeniedDevices[k]).err
         THEN "unknown device"
    ELSE ""

\* One pass of Validate's loop body for rule i, before the conflict scan:
\* the error it returns, or "" when the rule passes.
ValidateRule(hasReg, r, rule, i, ruleIDs) ==
    IF rule = NilRule THEN "panic: nil rule"
    ELSE IF rule.ID = "" THEN "ID is required"
    ELSE IF rule.Effect # EffectAllow /\ rule.Effect # EffectDeny THEN "invalid effect"
    ELSE IF rule.ID \in ruleIDs THEN "duplicate rule ID"
    ELSE IF ~ValidateClearance(rule.RequiredClearance) /\ rule.RequiredClearance # 0
         THEN "invalid clearance level"
    ELSE IF \E k \in 1..Len(rule.AllowedLayers) : rule.AllowedLayers[k] \notin KnownLayers
         THEN "invalid layer"
    ELSE IF /\ hasReg
            /\ \E k \in 1..Len(rule.AllowedDevices) :
                  GetDevice(r, rule.AllowedDevices[k]).err
         THEN "unknown device"
    ELSE IF /\ hasReg
            /\ \E k \in 1..Len(rule.DeniedDevices) :
                  GetDevice(r, rule.DeniedDevices[k]).err
         THEN "unknown device"
    ELSE ""

\* The conflict scan of rule i against the rules after it.  A nil rule
\* after i is dereferenced by checkConflict.
ConflictScan(pol, i) ==
    IF \E j \in (i + 1)..Len(pol.Rules) : pol.Rules[j] = NilRule
    THEN "panic: nil rule"
    ELSE IF \E j \in (i + 1)..Len(pol.Rules) :
                checkConflict(pol.Rules[i], pol.Rules[j])
    THEN "conflict"
    ELSE ""

RECURSIVE ValidateLoop(_, _, _, _, _, _)
ValidateLoop(hasReg, r, pol, i, ruleIDs, conflicts) ==
    IF i > Len(pol.Rules)
    THEN IF conflicts > 0 THEN "policy conflicts detected" ELSE ""
    ELSE LET e1 == ValidateRule(hasReg, r, pol.Rules[i], i, ruleIDs)
             e2 == ConflictScan(pol, i)
         IN  IF e1 # "" THEN e1
             ELSE IF e2 = "panic: nil rule" THEN e2
             ELSE ValidateLoop(hasReg, r, pol, i + 1,
                               ruleIDs \cup {pol.Rules[i].ID},
                               conflicts + (IF e2 = "conflict" THEN 1 ELSE 0))

\* Engine.Validate: the error it returns ("" for nil).  hasReg says
\* whether e.registry is non-nil, r is that registry.
Validate(hasReg, r, pol) ==
    IF pol.Version = ""
    THEN "policy version is required"
    ELSE ValidateLoop(hasReg, r, pol, 1, {}, 0)

-----------------------------------------------------------------------------
(* encoding/json as the engine uses it                                     *)

\* A JSON document is malformed text, or a value: an object is a record
\* holding the members that are present, an array is a sequence, null is
\* JsonNull.  Unmarshal gives an absent member its zero value and fails on a
\* number outside the range of the field's type.  Numbers are kept below
\* 2^31, so a required_clearance is out of uint32's range only when negative.
JsonNull == [null |-> TRUE]

Member(obj, name, zero) == IF name \in DOMAIN obj THEN obj[name] ELSE zero

AllInRange(s, lo, hi) == \A k \in 1..Len(s) : s[k] >= lo /\ s[k] <= hi

RuleDocInRange(doc) ==
    \/ doc = JsonNull
    \/ /\ Member(doc, "required_clearance", 0) >= 0
       /\ AllInRange(Member(doc, "allowed_devices", <<>>), 0, TwoTo16 - 1)
       /\ AllInRange(Member(doc, "denied_devices", <<>>), 0, TwoTo16 - 1)

DecodeRule(doc) ==
    IF doc = JsonNull THEN NilRule
    ELSE [ID |-> Member(doc, "id", ""),
          Name |-> Member(doc, "name", ""),
          Effect |-> Member(doc, "effect", ""),
          Routes |-> Member(doc, "routes", <<>>),
          Methods |-> Member(doc, "methods", <<>>),
          RequiredClearance |-> Member(doc, "required_clearance", 0),
          AllowedLayers |-> Member(doc, "allowed_layers", <<>>),
          AllowedDevices |-> Member(doc, "allowed_devices", <<>>),
          DeniedDevices |-> Member(doc, "denied_devices", <<>>),
          Priority |-> Member(doc, "priority", 0)]

\* json.Unmarshal(data, &policy)
Unmarshal(data) ==
    IF ~data.wellFormed
    THEN [err |-> TRUE, policy |-> [Version |-> "", Rules |-> <<>>]]
    ELSE LET ruleDocs == Member(data.doc, "rules", <<>>)
         IN  IF \E k \in 1..Len(ruleDocs) : ~RuleDocInRange(ruleDocs[k])
             THEN [err |-> TRUE, policy |-> [Version |-> "", Rules |-> <<>>]]
             ELSE [err |-> FALSE,
                   policy |-> [Version |-> Member(data.doc, "version", ""),
                               Rules |-> [k \in 1..Len(ruleDocs) |->
                                             DecodeRule(ruleDocs[k])]]]

\* LoadFromJSON that installs the decoded policy before validating it.
LoadFromJSONAssignFirst(active, hasReg, r, data) ==
    LET parsed == Unmarshal(data)
        verr == Validate(hasReg, r, parsed.policy)
    IN  IF parsed.err
        THEN [err |-> "failed to parse policy JSON", policy |-> active]
        ELSE IF verr # ""
        THEN [err |-> verr, policy |-> parsed.policy]
        ELSE [err |-> "", policy |-> parsed.policy]

\* Engine.LoadFromJSON, run alone: the error it returns and the policy
\* that is active after it.
LoadFromJSON(active, hasReg, r, data) ==
    LET parsed == Unmarshal(data)
        verr == Validate(hasReg, r, parsed.policy)
    IN  IF parsed.err
        THEN [err |-> "failed to parse policy JSON", policy |-> active]
        ELSE IF verr # ""
        THEN [err |-> verr, policy |-> active]
        ELSE [err |-> "", policy |-> parsed.policy]

\* Engine.LoadFromFile: a file is unreadable, or holds data.
LoadFromFile(active, hasReg, r, file) ==
    IF ~file.readable
    THEN [err |-> "failed to read policy file", policy |-> active]
    ELSE LET parsed == Unmarshal(file.data)
             verr == Validate(hasReg, r, parsed.policy)
         IN  IF parsed.err
             THEN [err |-> "failed to parse policy file", policy |-> active]
             ELSE IF verr # ""
             THEN [err |-> verr, policy |-> active]
             ELSE [err |-> "", policy |-> parsed.policy]

matchesRoute(patterns, route) ==
    \/ Len(patterns) = 0
    \/ \E k \in 1..Len(patterns) :
          \/ patterns[k] = Star
          \/ patterns[k] = route
          \/ /\ HasSuffix(patterns[k], Star)
             /\ HasPrefix(route, TrimSuffix(patterns[k], Star))

matchesMethod(methods, method) ==
    \/ Len(methods) = 0
    \/ \E k \in 1..Len(methods) : methods[k] = "*" \/ methods[k] = method

containsLayer(layers, layer) == \E k \in 1..Len(layers) : layers[k] = layer

containsDevice(deviceList, deviceID) ==
    \E k \in 1..Len(deviceList) : deviceList[k] = deviceID

\* ruleMatches with the denied-device check made first, before the route,
\* method, clearance and layer checks.
ruleMatchesDeniedFirst(rule, ctx) ==
    IF containsDevice(rule.DeniedDevices, ctx.DeviceID) THEN TRUE
    ELSE IF ~matchesRoute(rule.Routes, ctx.Route) THEN FALSE
    ELSE IF ~matchesMethod(rule.Methods, ctx.Method) THEN FALSE
    ELSE IF rule.RequiredClearance > 0
            /\ ~IsHigherOrEqual(ctx.Clearance, rule.RequiredClearance) THEN FALSE
    ELSE IF Len(rule.AllowedLayers) > 0
            /\ ~containsLayer(rule.AllowedLayers, ctx.Layer) THEN FALSE
    ELSE IF Len(rule.AllowedDevices) > 0
            /\ ~containsDevice(rule.AllowedDevices, ctx.DeviceID) THEN FALSE
    ELSE TRUE

\* Engine.ruleMatches
ruleMatches(rule, ctx) ==
    IF ~matchesRoute(rule.Routes, ctx.Route) THEN FALSE
    ELSE IF ~matchesMethod(rule.Methods, ctx.Method) THEN FALSE
    ELSE IF rule.RequiredClearance > 0
            /\ ~IsHigherOrEqual(ctx.Clearance, rule.RequiredClearance) THEN FALSE
    ELSE IF Len(rule.AllowedLayers) > 0
            /\ ~containsLayer(rule.AllowedLayers, ctx.Layer) THEN FALSE
    ELSE IF containsDevice(rule.DeniedDevices, ctx.DeviceID) THEN TRUE
    ELSE IF Len(rule.AllowedDevices) > 0
            /\ ~containsDevice(rule.AllowedDevices, ctx.DeviceID) THEN FALSE
    ELSE TRUE

\* Evaluate's locals before its loop: matchedRule (0 for nil, else the
\* rule's place in the list) and highestPriority.
EvalStart == [matchedRule |-> 0, highestPriority |-> -1]

\* One iteration of Evaluate's loop, on rule i.
EvalLoopBody(rules, i, ctx, acc) ==
    IF ruleMatches(rules[i], ctx) /\ rules[i].Priority > acc.highestPriority
    THEN [matchedRule |-> i, highestPriority |-> rules[i].Priority]
    ELSE acc

RECURSIVE EvalLoop(_, _, _, _)
EvalLoop(rules, i, ctx, acc) ==
    IF i > Len(rules) THEN acc
    ELSE EvalLoop(rules, i + 1, ctx, EvalLoopBody(rules, i, ctx, acc))

\* The Decision Evaluate starts from: a default allow.
DefaultAllowDecision ==
    [Effect |-> EffectAllow, Reason |-> <<"no matching policy rule">>,
     RuleID |-> "", RuleName |-> ""]

\* The Decision Evaluate starts from.
DefaultDecision ==
    [Effect |-> EffectDeny, Reason |-> <<"no matching policy rule">>,
     RuleID |-> "", RuleName |-> ""]

\* The Decision Evaluate returns once its loop has ended with acc.
MakeDecision(rules, acc) ==
    IF acc.matchedRule # 0
    THEN LET matched == rules[acc.matchedRule]
         IN  [Effect |-> matched.Effect,
              Reason |-> IF matched.Effect = EffectAllow
                         THEN <<"allowed by rule", matched.Name>>
                         ELSE <<"denied by rule", matched.Name>>,
              RuleID |-> matched.ID,
              RuleName |-> matched.Name]
    ELSE DefaultDecision

\* Engine.Evaluate on the active policy, run under the read lock.
Evaluate(active, ctx) ==
    MakeDecision(active.Rules, EvalLoop(active.Rules, 1, ctx, EvalStart))

-----------------------------------------------------------------------------
(* Inputs of the registry operations                                       *)

\* Device IDs of the 16-bit range: small ones, the top one, and two whose
\* tripled value wraps around 2^16.
SampleIDs == {0, 1, 2, 21846, 43691, 65535}

Dev(id, layer, clearance, name) ==
    [ID |-> id, Layer |-> layer, Class |-> "sensor", Clearance |-> clearance,
     Name |-> name, TokenBase |-> 0]

DeviceInputs ==
    {Dev(id, LayerData, ClearanceLevel3, "a") : id \in SampleIDs} \cup
    {Dev(id, LayerControl, ClearanceLevel7, "b") : id \in {1, 2}}

SampleTokens ==
    {ComputeToken(d, o) : d \in DeviceInputs, o \in TokenOffsets} \cup {0, 32767}

NoRegOp ==
    [op |-> "none", id |-> -1, existed |-> FALSE, err |-> FALSE,
     device |-> NilDevice, offset |-> 0]

-----------------------------------------------------------------------------
(* Inputs of the policy engine                                             *)

RouteP == <<"/", "p">>
RouteS == <<"/", "s">>
RouteQ == <<"/", "q">>
SlashStar == <<"/", "*">>

RuleDoc(id, effect, routes, methods, clearance, layers, allowed, denied, priority) ==
    [id |-> id, name |-> id, effect |-> effect, routes |-> routes,
     methods |-> methods, required_clearance |-> clearance,
     allowed_layers |-> layers, allowed_devices |-> allowed,
     denied_devices |-> denied, priority |-> priority]

DocAllowPublic ==
    RuleDoc("allow-public", EffectAllow, <<RouteP>>, <<"GET">>, 0, <<>>, <<>>, <<>>, 1)
DocDenyDefault ==
    RuleDoc("deny-default", EffectDeny, <<Star>>, <<"*">>, 0, <<>>, <<>>, <<>>, 0)
DocDenyPublic ==
    RuleDoc("deny-public", EffectDeny, <<RouteP>>, <<"*">>, 0, <<>>, <<>>, <<>>, 1)
DocDenyPrefix ==
    RuleDoc("deny-prefix", EffectDeny, <<SlashStar>>, <<"GET">>, 0, <<>>, <<>>, <<>>, 1)
DocAllowLow ==
    RuleDoc("allow-low", EffectAllow, <<RouteP, RouteQ>>, <<"GET">>, 0, <<>>, <<>>, <<>>, -1)
DocAllowLowPublic ==
    RuleDoc("allow-low-public", EffectAllow, <<RouteP>>, <<"GET">>, 0, <<>>, <<>>, <<>>, -1)
DocGuarded ==
    RuleDoc("guarded", EffectAllow, <<RouteS>>, <<"GET", "POST">>, ClearanceLevel5,
            <<LayerControl>>, <<1>>, <<2>>, 2)

\* The rule documents policies are built from.
RulePool ==
    {DocAllowPublic, DocDenyDefault, DocDenyPublic, DocDenyPrefix, DocAllowLow,
     DocGuarded}

RECURSIVE SeqsUpTo(_, _)
SeqsUpTo(S, n) ==
    IF n = 0 THEN {<<>>}
    ELSE LET shorter == SeqsUpTo(S, n - 1)
         IN  shorter \cup {Append(q, x) : q \in shorter, x \in S}

Json(doc) == [wellFormed |-> TRUE, doc |-> doc]

\* Documents that exercise the decoder and each check of Validate.
OddDocs ==
    {[rules |-> <<DocAllowPublic>>],
     [version |-> "", rules |-> <<DocDenyDefault>>],
     [version |-> "2.0"],
     [version |-> "2.0", rules |-> <<[id |-> "bare", effect |-> EffectDeny]>>],
     [version |-> "2.0", rules |-> <<[effect |-> EffectAllow]>>],
     [version |-> "2.0", rules |-> <<[id |-> "permit", effect |-> "permit"]>>],
     [version |-> "2.0",
      rules |-> <<DocDenyDefault,
                  [id |-> "level1", effect |-> EffectAllow,
                   required_clearance |-> 16843009]>>],
     [version |-> "2.0",
      rules |-> <<[id |-> "level2", effect |-> EffectAllow,
                   required_clearance |-> 33554432]>>],
     [version |-> "2.0",
      rules |-> <<[id |-> "layer", effect |-> EffectAllow,
                   allowed_layers |-> <<LayerData, "physical">>]>>],
     [version |-> "2.0",
      rules |-> <<[id |-> "allowed9", effect |-> EffectAllow,
                   allowed_devices |-> <<1, 9>>]>>],
     [version |-> "2.0",
      rules |-> <<[id |-> "denied9", effect |-> EffectDeny,
                   denied_devices |-> <<9>>]>>],
     [version |-> "2.0",
      rules |-> <<[id |-> "wide", effect |-> EffectDeny,
                   denied_devices |-> <<70000>>]>>],
     [version |-> "2.0", rules |-> <<DocAllowPublic, JsonNull>>]}

\* Policies with two rules of equal priority that match the same requests.
TiedDocs ==
    {[version |-> "1.0", rules |-> <<DocAllowLow, DocAllowLowPublic>>],
     [version |-> "1.0", rules |-> <<DocAllowLowPublic, DocAllowLow>>]}

\* The data LoadFromJSON is called with.
PolicyData ==
    {Json([version |-> "1.0", rules |-> q]) : q \in SeqsUpTo(RulePool, MaxRules)}
    \cup {Json(doc) : doc \in OddDocs}
    \cup {Json(doc) : doc \in TiedDocs}
    \cup {[wellFormed |-> FALSE, doc |-> JsonNull]}

\* The files LoadFromFile is called with.
PolicyFiles ==
    {[readable |-> FALSE, data |-> Json([version |-> "1.0"])],
     [readable |-> TRUE, data |-> [wellFormed |-> FALSE, doc |-> JsonNull]],
     [readable |-> TRUE, data |-> Json([version |-> "", rules |-> <<DocDenyDefault>>])],
     [readable |-> TRUE,
      data |-> Json([version |-> "3.0", rules |-> <<DocGuarded, DocDenyDefault>>])]}

Ctx(route, method, deviceID, layer, clearance) ==
    [Route |-> route, Method |-> method, DeviceID |-> deviceID, Layer |-> layer,
     Clearance |-> clearance, RequestID |-> "req", SourceIP |-> "ip",
     TokenID |-> 0, TokenOffset |-> 0]

\* The contexts Evaluate is called with.
Contexts ==
    {Ctx(route, method, deviceID, layer, clearance) :
        route \in {RouteP, RouteS, RouteQ},
        method \in {"GET", "POST"},
        deviceID \in {0, 1, 2},
        layer \in {"", LayerControl},
        clearance \in {0, ClearanceLevel3, ClearanceLevel7}}

NoData == [wellFormed |-> FALSE, doc |-> JsonNull]

NoCtx == Ctx(<<>>, "", 0, "", 0)

NoDecision == [Effect |-> "", Reason |-> <<>>, RuleID |-> "", RuleName |-> ""]

NoPolOp ==
    [op |-> "none", err |-> "", readable |-> TRUE, data |-> NoData, ctx |-> NoCtx,
     decision |-> NoDecision]

\* The engine as NewEngine leaves it, with no call made.
PolicyIdle ==
    /\ policy = NewEnginePolicy
    /\ hasRegistry = TRUE
    /\ polOp = NoPolOp
    /\ polPre = NewEnginePolicy

-----------------------------------------------------------------------------
(* sync.RWMutex as the engine uses it, and the goroutines that call it     *)

NoHolder == "none"

NewMutex == [writer |-> NoHolder, pending |-> {}, readers |-> {}]

\* A Lock that does not wait for the readers to leave.
CanLockIgnoringReaders(m) == m.writer = NoHolder

\* Lock goes through once no reader and no writer holds the lock.
CanLock(m) == m.writer = NoHolder /\ m.readers = {}

\* RLock goes through unless a writer holds the lock or waits for it.
CanRLock(m) == m.writer = NoHolder /\ m.pending = {}

Loaders == {"l1", "l2"}

Evaluators == {"e1", "e2"}

\* The data the concurrent loads are called with: two policies that load,
\* one that fails validation.
ConcData ==
    {Json([version |-> "1.0", rules |-> <<DocAllowPublic, DocDenyDefault>>]),
     Json([version |-> "2.0", rules |-> <<DocDenyPublic>>]),
     Json([version |-> "3.0", rules |-> <<DocAllowPublic, DocDenyPublic>>])}

ConcContexts == {Ctx(RouteP, "GET", 0, "", 0), Ctx(RouteQ, "GET", 0, "", 0)}

IdleLoader == [pc |-> "idle", policy |-> NewEnginePolicy, err |-> ""]

IdleEvaluator ==
    [pc |-> "idle", ctx |-> NoCtx, rules |-> <<>>, i |-> 0, acc |-> EvalStart,
     decision |-> NoDecision, seen |-> NewEnginePolicy]

\* No goroutine is in the engine.
ConcIdle ==
    /\ mu = NewMutex
    /\ loaders = [l \in Loaders |-> IdleLoader]
    /\ evals = [e \in Evaluators |-> IdleEvaluator]
    /\ installed = {NewEnginePolicy}

-----------------------------------------------------------------------------
(* strconv and fmt as the middleware uses them                             *)

\* The value of a digit character, 99 for any other character.
DigitValue(c) ==
    CASE c = "0" -> 0 [] c = "1" -> 1 [] c = "2" -> 2 [] c = "3" -> 3
      [] c = "4" -> 4 [] c = "5" -> 5 [] c = "6" -> 6 [] c = "7" -> 7
      [] c = "8" -> 8 [] c = "9" -> 9
      [] c \in {"a", "A"} -> 10 [] c \in {"b", "B"} -> 11
      [] c \in {"c", "C"} -> 12 [] c \in {"d", "D"} -> 13
      [] c \in {"e", "E"} -> 14 [] c \in {"f", "F"} -> 15
      [] OTHER -> 99

RECURSIVE ParseDigits(_, _, _, _, _)
ParseDigits(s, i, base, maxVal, acc) ==
    IF i > Len(s) THEN [err |-> FALSE, val |-> acc]
    ELSE LET d == DigitValue(s[i])
         IN  IF d >= base THEN [err |-> TRUE, val |-> 0]
             ELSE IF acc > (maxVal - d) \div base THEN [err |-> TRUE, val |-> 0]
             ELSE ParseDigits(s, i + 1, base, maxVal, acc * base + d)

\* strconv.ParseUint(s, base, bitSize) for base 10 or 16, maxVal the
\* largest value of bitSize bits: a syntax error on the empty string and on
\* any character that is no digit of the base, a range error above maxVal.
ParseUint(s, base, maxVal) ==
    IF Len(s) = 0 THEN [err |-> TRUE, val |-> 0]
    ELSE ParseDigits(s, 1, base, maxVal, 0)

MaxUint16 == 65535

\* The largest clearance the model holds; header values are kept below it.
MaxClearance == 2147483647

DigitChar(d) ==
    CASE d = 0 -> "0" [] d = 1 -> "1" [] d = 2 -> "2" [] d = 3 -> "3"
      [] d = 4 -> "4" [] d = 5 -> "5" [] d = 6 -> "6" [] d = 7 -> "7"
      [] d = 8 -> "8" [] OTHER -> "9"

\* fmt.Sprintf("%d", n) for n >= 0.
RECURSIVE FormatUint(_)
FormatUint(n) ==
    IF n < 10 THEN <<DigitChar(n)>>
    ELSE Append(FormatUint(n \div 10), DigitChar(n % 10))

-----------------------------------------------------------------------------
(* internal/audit: the logger                                              *)

DecisionAllow == "allow"
DecisionDeny == "deny"

\* What generateEventID and time.Now give an event that has none.
GeneratedEventID == "evt-generated"
ClockNow == 1

\* audit.NewLogger
NewLogger == [enabled |-> TRUE, writers |-> <<>>]

\* The loop of Logger.Log over the writers from the k-th on.  A writer is
\* the result of its Write: "ok" for nil, any other string the error.
RECURSIVE LogLoop(_, _, _, _)
LogLoop(writers, k, ev, acc) ==
    IF k > Len(writers) THEN acc
    ELSE LogLoop(writers, k + 1, ev,
                 [lastErr |-> IF writers[k] # "ok" THEN writers[k] ELSE acc.lastErr,
                  writes |-> Append(acc.writes, [writer |-> k, event |-> ev])])

\* The loop ending at the first writer that fails.
RECURSIVE LogLoopUntilError(_, _, _, _)
LogLoopUntilError(writers, k, ev, acc) ==
    IF k > Len(writers) \/ acc.lastErr # "" THEN acc
    ELSE LogLoopUntilError(writers, k + 1, ev,
                 [lastErr |-> IF writers[k] # "ok" THEN writers[k] ELSE acc.lastErr,
                  writes |-> Append(acc.writes, [writer |-> k, event |-> ev])])

\* Log returning at the first error of a writer.
LogStoppingAtError(lg, event) ==
    IF ~lg.enabled
    THEN [err |-> "", event |-> event, writes |-> <<>>]
    ELSE LET ev == [event EXCEPT
                      !.EventID = IF @ = "" THEN GeneratedEventID ELSE @,
                      !.Timestamp = IF @ = 0 THEN ClockNow ELSE @]
             done == LogLoopUntilError(lg.writers, 1, ev,
                                       [lastErr |-> "", writes |-> <<>>])
         IN  [err |-> done.lastErr, event |-> ev, writes |-> done.writes]

\* Log without the enabled check.
LogWhenDisabled(lg, event) ==
    LET ev == [event EXCEPT
                 !.EventID = IF @ = "" THEN GeneratedEventID ELSE @,
                 !.Timestamp = IF @ = 0 THEN ClockNow ELSE @]
        done == LogLoop(lg.writers, 1, ev, [lastErr |-> "", writes |-> <<>>])
    IN  [err |-> done.lastErr, event |-> ev, writes |-> done.writes]

\* Log giving every event a new ID and the current time.
LogRestamping(lg, event) ==
    IF ~lg.enabled
    THEN [err |-> "", event |-> event, writes |-> <<>>]
    ELSE LET ev == [event EXCEPT !.EventID = GeneratedEventID,
                                 !.Timestamp = ClockNow]
             done == LogLoop(lg.writers, 1, ev, [lastErr |-> "", writes |-> <<>>])
         IN  [err |-> done.lastErr, event |-> ev, writes |-> done.writes]

\* Logger.Log: the error it returns ("" for nil), the event as it leaves it
\* and the Write calls made, in order, each with the event as the writer
\* received it.
Log(lg, event) ==
    IF ~lg.enabled
    THEN [err |-> "", event |-> event, writes |-> <<>>]
    ELSE LET ev == [event EXCEPT
                      !.EventID = IF @ = "" THEN GeneratedEventID ELSE @,
                      !.Timestamp = IF @ = 0 THEN ClockNow ELSE @]
             done == LogLoop(lg.writers, 1, ev, [lastErr |-> "", writes |-> <<>>])
         IN  [err |-> done.lastErr, event |-> ev, writes |-> done.writes]

\* Logger.AddWriter
AddWriter(lg, w) == [lg EXCEPT !.writers = Append(@, w)]

\* Logger.SetEnabled
SetEnabled(lg, enabled) == [lg EXCEPT !.enabled = enabled]

-----------------------------------------------------------------------------
(* api/middleware: the clearance middleware                                *)

StatusUnauthorized == 401
StatusForbidden == 403

ActorUnknown == <<"u", "n", "k", "n", "o", "w", "n">>

\* fmt.Sprintf("device-%d", deviceID)
DeviceActor(deviceID) == <<"d", "e", "v", "i", "c", "e", "-">> \o FormatUint(deviceID)

Prefix0x == <<"0", "x">>
Prefix0X == <<"0", "X">>

ZeroEvent ==
    [EventID |-> "", Timestamp |-> 0, Actor |-> <<>>, Clearance |-> 0,
     DeviceID |-> 0, Layer |-> "", Action |-> <<>>, Method |-> "",
     Resource |-> <<>>, Decision |-> "", Reason |-> <<>>, RequestID |-> "",
     SourceIP |-> "", StatusCode |-> 0]

\* What the middleware did with a request: the terminal state, the status
\* and body it wrote (status 0: the response is the downstream handler's),
\* whether next.ServeHTTP ran and with which context values, the events
\* handed to AuditLogger.Log and the Write calls they led to, the registry
\* lookups made, and the policy context and decision if Evaluate ran.
NoOutcome ==
    [state |-> "none", status |-> 0, error |-> "", reason |-> <<>>,
     next |-> FALSE, ctxClearance |-> 0, ctxDevice |-> NilDevice,
     logCalls |-> <<>>, writes |-> <<>>, logErr |-> "",
     tokenLookups |-> 0, deviceLookups |-> 0,
     evaluated |-> FALSE, policyCtx |-> NoCtx, decision |-> NoDecision]

\* The audit calls of one outcome, after AuditLogger.Log(event).
WithAudit(out, cfg, lg, event) ==
    IF cfg.AuditLogger
    THEN LET res == Log(lg, event)
         IN  [out EXCEPT !.logCalls = Append(@, event),
                         !.writes = @ \o res.writes,
                         !.logErr = res.err]
    ELSE out

\* respondUnauthorized without its audit call.
respondUnauthorizedSilent(out, cfg, lg, req, reason) ==
    [out EXCEPT !.state = "REJECT", !.status = StatusUnauthorized,
                !.error = "unauthorized", !.reason = <<reason>>]

\* respondUnauthorized
respondUnauthorized(out, cfg, lg, req, reason) ==
    LET event == [ZeroEvent EXCEPT
                    !.Actor = ActorUnknown, !.Action = req.Path,
                    !.Method = req.Method, !.Resource = req.Path,
                    !.Decision = DecisionDeny, !.Reason = <<reason>>,
                    !.RequestID = req.RequestID, !.SourceIP = req.RemoteAddr,
                    !.StatusCode = StatusUnauthorized]
    IN  [WithAudit(out, cfg, lg, event) EXCEPT
            !.state = "REJECT", !.status = StatusUnauthorized,
            !.error = "unauthorized", !.reason = <<reason>>]

\* The end of the handler, from "Evaluate policy" on, with the identity
\* resolved: deviceID, layer, clearance, tokenID, tokenOffset, device.
\* A deny goes on to the next handler instead of being enforced.
enforceNotEnforcing(out, cfg, lg, active, req, id) ==
    LET policyCtx == [Route |-> req.Path, Method |-> req.Method,
                      DeviceID |-> id.deviceID, Layer |-> id.layer,
                      Clearance |-> id.clearance, RequestID |-> req.RequestID,
                      SourceIP |-> req.RemoteAddr, TokenID |-> id.tokenID,
                      TokenOffset |-> id.tokenOffset]
        decision == Evaluate(active, policyCtx)
        event == [ZeroEvent EXCEPT
                    !.Actor = DeviceActor(id.deviceID),
                    !.Clearance = id.clearance, !.DeviceID = id.deviceID,
                    !.Layer = id.layer, !.Action = req.Path,
                    !.Method = req.Method, !.Resource = req.Path,
                    !.RequestID = req.RequestID, !.SourceIP = req.RemoteAddr,
                    !.Decision = IF decision.Effect = EffectAllow
                                 THEN DecisionAllow ELSE DecisionDeny,
                    !.Reason = decision.Reason,
                    !.StatusCode = IF decision.Effect = EffectAllow
                                   THEN 0 ELSE StatusForbidden]
        passed == [out EXCEPT !.state = "PASS", !.next = TRUE,
                              !.ctxClearance = id.clearance,
                              !.ctxDevice = id.device]
    IN  IF ~cfg.PolicyEngine THEN passed
        ELSE [WithAudit(passed, cfg, lg, event) EXCEPT
                 !.evaluated = TRUE, !.policyCtx = policyCtx,
                 !.decision = decision]

\* The end of the handler with an audit error made fatal: if Log returned
\* an error the request is refused with status 500.
enforceFailClosed(out, cfg, lg, active, req, id) ==
    LET done == enforceNotEnforcing(out, cfg, lg, active, req, id)
        denied == done.evaluated /\ done.decision.Effect = EffectDeny
    IN  IF done.logErr # ""
        THEN [done EXCEPT !.state = "REJECT", !.status = 500, !.next = FALSE,
                          !.error = "audit failure"]
        ELSE IF denied
        THEN [done EXCEPT !.state = "REJECT", !.status = StatusForbidden,
                          !.next = FALSE, !.error = "access denied",
                          !.reason = done.decision.Reason]
        ELSE done

\* The end of the handler, from "Evaluate policy" on, with the identity
\* resolved: deviceID, layer, clearance, tokenID, tokenOffset, device.
enforce(out, cfg, lg, active, req, id) ==
    LET policyCtx == [Route |-> req.Path, Method |-> req.Method,
                      DeviceID |-> id.deviceID, Layer |-> id.layer,
                      Clearance |-> id.clearance, RequestID |-> req.RequestID,
                      SourceIP |-> req.RemoteAddr, TokenID |-> id.tokenID,
                      TokenOffset |-> id.tokenOffset]
        decision == Evaluate(active, policyCtx)
        event == [ZeroEvent EXCEPT
                    !.Actor = DeviceActor(id.deviceID),
                    !.Clearance = id.clearance, !.DeviceID = id.deviceID,
                    !.Layer = id.layer, !.Action = req.Path,
                    !.Method = req.Method, !.Resource = req.Path,
                    !.RequestID = req.RequestID, !.SourceIP = req.RemoteAddr,
                    !.Decision = IF decision.Effect = EffectAllow
                                 THEN DecisionAllow ELSE DecisionDeny,
                    !.Reason = decision.Reason,
                    !.StatusCode = IF decision.Effect = EffectAllow
                                   THEN 0 ELSE StatusForbidden]
        passed == [out EXCEPT !.state = "PASS", !.next = TRUE,
                              !.ctxClearance = id.clearance,
                              !.ctxDevice = id.device]
    IN  IF ~cfg.PolicyEngine THEN passed
        ELSE LET audited == [WithAudit(out, cfg, lg, event) EXCEPT
                               !.evaluated = TRUE, !.policyCtx = policyCtx,
                               !.decision = decision]
             IN  IF decision.Effect = EffectDeny
                 THEN [audited EXCEPT
                         !.state = "REJECT", !.status = StatusForbidden,
                         !.error = "access denied", !.reason = decision.Reason]
                 ELSE [audited EXCEPT !.state = "PASS", !.next = TRUE,
                                      !.ctxClearance = id.clearance,
                                      !.ctxDevice = id.device]

\* The device lookup without the defaults: the clearance and the layer stay
\* as the request gave them.
resolveDeviceNoDefaults(out, cfg, lg, r, active, req, id) ==
    IF id.deviceID > 0 /\ cfg.DeviceRegistry
    THEN LET got == GetDevice(r, id.deviceID)
             looked == [out EXCEPT !.deviceLookups = @ + 1]
         IN  IF got.err
             THEN respondUnauthorized(looked, cfg, lg, req, "device not registered")
             ELSE enforce(looked, cfg, lg, active, req,
                          [id EXCEPT !.device = got.device])
    ELSE enforce(out, cfg, lg, active, req, id)

\* The handler from "Get device info" on: the device lookup and the
\* defaults it gives the clearance and the layer.
resolveDevice(out, cfg, lg, r, active, req, id) ==
    IF id.deviceID > 0 /\ cfg.DeviceRegistry
    THEN LET got == GetDevice(r, id.deviceID)
             looked == [out EXCEPT !.deviceLookups = @ + 1]
         IN  IF got.err
             THEN respondUnauthorized(looked, cfg, lg, req, "device not registered")
             ELSE enforce(looked, cfg, lg, active, req,
                          [id EXCEPT
                             !.device = got.device,
                             !.clearance = IF @ = 0 THEN got.device.Clearance ELSE @,
                             !.layer = IF @ = "" THEN got.device.Layer ELSE @])
    ELSE enforce(out, cfg, lg, active, req, id)

\* The token step with a resolved token not overriding the identity: the
\* device ID, the layer and the clearance stay as the request gave them.
resolveTokenNoOverride(out, cfg, lg, r, active, req, id) ==
    IF req.TokenID # <<>>
    THEN LET parsed == ParseUint(req.TokenID, 10, MaxUint16)
         IN  IF parsed.err
             THEN respondUnauthorized(out, cfg, lg, req, "invalid token ID")
             ELSE IF cfg.DeviceRegistry
             THEN LET got == GetDeviceByToken(r, parsed.val)
                      looked == [out EXCEPT !.tokenLookups = @ + 1]
                  IN  resolveDevice(looked, cfg, lg, r, active, req,
                          [id EXCEPT !.tokenID = parsed.val,
                                     !.tokenOffset = got.offset])
             ELSE resolveDevice(out, cfg, lg, r, active, req,
                                [id EXCEPT !.tokenID = parsed.val])
    ELSE resolveDevice(out, cfg, lg, r, active, req, id)

\* The handler from "Parse token ID" on.
resolveToken(out, cfg, lg, r, active, req, id) ==
    IF req.TokenID # <<>>
    THEN LET parsed == ParseUint(req.TokenID, 10, MaxUint16)
         IN  IF parsed.err
             THEN respondUnauthorized(out, cfg, lg, req, "invalid token ID")
             ELSE IF cfg.DeviceRegistry
             THEN LET got == GetDeviceByToken(r, parsed.val)
                      looked == [out EXCEPT !.tokenLookups = @ + 1]
                  IN  IF ~got.err
                      THEN resolveDevice(looked, cfg, lg, r, active, req,
                               [id EXCEPT !.tokenID = parsed.val,
                                          !.deviceID = got.device.ID,
                                          !.layer = got.device.Layer,
                                          !.clearance = got.device.Clearance,
                                          !.tokenOffset = got.offset])
                      ELSE resolveDevice(looked, cfg, lg, r, active, req,
                               [id EXCEPT !.tokenID = parsed.val])
             ELSE resolveDevice(out, cfg, lg, r, active, req,
                                [id EXCEPT !.tokenID = parsed.val])
    ELSE resolveDevice(out, cfg, lg, r, active, req, id)

\* The layer step without its check: any layer string goes on.
parseLayerUnchecked(out, cfg, lg, r, active, req, id) ==
    resolveToken(out, cfg, lg, r, active, req, [id EXCEPT !.layer = req.Layer])

\* The handler from "Parse layer" on.
parseLayer(out, cfg, lg, r, active, req, id) ==
    IF req.Layer # "" /\ req.Layer \notin KnownLayers
    THEN respondUnauthorized(out, cfg, lg, req, "invalid layer")
    ELSE resolveToken(out, cfg, lg, r, active, req, [id EXCEPT !.layer = req.Layer])

\* The handler from "Parse clearance" on.
parseClearance(out, cfg, lg, r, active, req, id) ==
    IF req.Clearance # <<>>
    THEN LET parsed == ParseUint(TrimPrefix(TrimPrefix(req.Clearance, Prefix0x),
                                            Prefix0X),
                                 16, MaxClearance)
         IN  IF parsed.err
             THEN respondUnauthorized(out, cfg, lg, req, "invalid clearance format")
             ELSE IF ~ValidateClearance(parsed.val)
             THEN respondUnauthorized(out, cfg, lg, req, "invalid clearance level")
             ELSE parseLayer(out, cfg, lg, r, active, req,
                             [id EXCEPT !.clearance = parsed.val])
    ELSE parseLayer(out, cfg, lg, r, active, req, id)

ZeroIdentity ==
    [deviceID |-> 0, layer |-> "", clearance |-> 0, tokenID |-> 0,
     tokenOffset |-> 0, device |-> NilDevice]

\* The handler without the Enabled check: it enforces whatever the
\* configuration says.
ClearanceAlwaysEnforcing(cfg, lg, r, active, req) ==
    IF req.DeviceID # <<>>
    THEN LET parsed == ParseUint(req.DeviceID, 10, MaxUint16)
         IN  IF parsed.err
             THEN respondUnauthorized(NoOutcome, cfg, lg, req, "invalid device ID")
             ELSE parseClearance(NoOutcome, cfg, lg, r, active, req,
                                 [ZeroIdentity EXCEPT !.deviceID = parsed.val])
    ELSE parseClearance(NoOutcome, cfg, lg, r, active, req, ZeroIdentity)

\* The handler Clearance(config) wraps next in, on one request: r is the
\* registry, active the engine's policy, lg the audit logger.  config.Logger
\* is taken to be set.
Clearance(cfg, lg, r, active, req) ==
    IF ~cfg.Enabled
    THEN [NoOutcome EXCEPT !.state = "PASS", !.next = TRUE]
    ELSE IF req.DeviceID # <<>>
    THEN LET parsed == ParseUint(req.DeviceID, 10, MaxUint16)
         IN  IF parsed.err
             THEN respondUnauthorized(NoOutcome, cfg, lg, req, "invalid device ID")
             ELSE parseClearance(NoOutcome, cfg, lg, r, active, req,
                                 [ZeroIdentity EXCEPT !.deviceID = parsed.val])
    ELSE parseClearance(NoOutcome, cfg, lg, r, active, req, ZeroIdentity)

-----------------------------------------------------------------------------
(* Inputs of the middleware                                                *)

Chars(n) == FormatUint(n)

HexL3 == <<"0", "x", "0", "3", "0", "3", "0", "3", "0", "3">>
HexL9 == <<"0", "9", "0", "9", "0", "9", "0", "9">>
HexL1 == <<"0", "1", "0", "1", "0", "1", "0", "1">>

Req(deviceID, layer, clearance, tokenID, path) ==
    [DeviceID |-> deviceID, Layer |-> layer, Clearance |-> clearance,
     TokenID |-> tokenID, Path |-> path, Method |-> "GET",
     RequestID |-> "req", RemoteAddr |-> "ip"]

\* Requests: each header absent, well-formed (naming a registered device or
\* none) or malformed.
Requests ==
    {Req(deviceID, layer, clearance, tokenID, path) :
        deviceID \in {<<>>, Chars(0), Chars(1), Chars(2), Chars(9), <<"x">>,
                      Chars(65536)},
        layer \in {"", LayerControl, "physical"},
        clearance \in {<<>>, HexL3, HexL9, HexL1, <<"z">>, Prefix0x},
        tokenID \in {<<>>, Chars(32771), Chars(32775), Chars(40000), <<"-", "1">>},
        path \in {RouteP, RouteS}}

\* The policies the engine of the middleware is given.
GateData ==
    {Json([version |-> "1.0", rules |-> <<DocAllowPublic, DocDenyDefault>>]),
     Json([version |-> "1.0", rules |-> <<DocGuarded, DocAllowLow>>])}

AllSet == [Enabled |-> TRUE, PolicyEngine |-> TRUE, AuditLogger |-> TRUE,
           DeviceRegistry |-> TRUE]

\* A ClearanceConfig and the audit logger it names: main.go's, the same
\* with a failing writer or a disabled logger, enforcement off, and
\* configurations with a collaborator left nil.
GateSetups ==
    {[cfg |-> AllSet, lg |-> [enabled |-> TRUE, writers |-> <<"ok">>]],
     [cfg |-> AllSet, lg |-> [enabled |-> TRUE, writers |-> <<"fail", "ok">>]],
     [cfg |-> AllSet, lg |-> [enabled |-> FALSE, writers |-> <<"ok">>]],
     [cfg |-> [AllSet EXCEPT !.Enabled = FALSE],
      lg |-> [enabled |-> TRUE, writers |-> <<"ok">>]],
     [cfg |-> [AllSet EXCEPT !.PolicyEngine = FALSE],
      lg |-> [enabled |-> TRUE, writers |-> <<"ok">>]],
     [cfg |-> [AllSet EXCEPT !.AuditLogger = FALSE], lg |-> NewLogger],
     [cfg |-> [AllSet EXCEPT !.DeviceRegistry = FALSE],
      lg |-> [enabled |-> TRUE, writers |-> <<"ok">>]]}

NoReq == Req(<<>>, "", <<>>, <<>>, <<>>)

\* The middleware has handled no request.
GateIdle ==
    /\ gateCfg = AllSet
    /\ auditLogger = NewLogger
    /\ gateOut = [req |-> NoReq, out |-> NoOutcome]

-----------------------------------------------------------------------------
(* Goroutines calling the registry at the same time.  DeviceRegistry has   *)
(* no lock: each map access of Register and of the lookups is a step of    *)
(* its own, and the steps of different goroutines interleave.              *)

Registrars == {"g1", "g2"}

Readers == {"q1"}

\* Devices the goroutines register: two callers' records for one ID.
RaceDevices ==
    {Dev(1, LayerData, ClearanceLevel3, "a"),
     Dev(1, LayerControl, ClearanceLevel7, "b")}

\* The lookups the readers make: by ID, by token, and the listing.
RaceLookups ==
    {[op |-> "GetDevice", arg |-> 1],
     [op |-> "GetDeviceByToken", arg |-> 32771],
     [op |-> "GetDeviceByToken", arg |-> 32773],
     [op |-> "ListDevices", arg |-> 0]}

IdleRegistrar == [pc |-> "idle", device |-> NilDevice, fresh |-> FALSE, err |-> FALSE]

IdleReader ==
    [pc |-> "idle", op |-> "", arg |-> 0, err |-> FALSE, device |-> NilDevice,
     offset |-> 0, list |-> {}, at |-> NewDeviceRegistry, during |-> {}]

\* No goroutine is in the registry.
RaceIdle ==
    /\ regs = [g \in Registrars |-> IdleRegistrar]
    /\ lookups = [q \in Readers |-> IdleReader]
    /\ fault = FALSE

-----------------------------------------------------------------------------
(* Inputs of the audit logger                                              *)

MaxWriters == 3

\* What a writer's Write returns.
WriterKinds == {"ok", "disk full", "timeout"}

\* Events as callers hand them to Log: with and without an event ID and a
\* timestamp of their own.
LogEvents ==
    {[ZeroEvent EXCEPT !.EventID = eventID, !.Timestamp = ts,
                       !.Actor = ActorUnknown, !.Decision = decision] :
        eventID \in {"", "evt-caller"}, ts \in {0, 7},
        decision \in {DecisionAllow, DecisionDeny}}

NoLogOp ==
    [op |-> "none", event |-> ZeroEvent, enabled |-> FALSE, writers |-> <<>>,
     res |-> [err |-> "", event |-> ZeroEvent, writes |-> <<>>]]

\* No call of the audit logger is recorded.
AuditIdle == logOp = NoLogOp

-----------------------------------------------------------------------------
(* Layers given to CanAccessLayer                                          *)

NoMatchOp ==
    [called |-> FALSE, rule |-> NilRule, ctx |-> NoCtx, result |-> FALSE]

\* ruleMatches has not been called.
MatchIdle == matchOp = NoMatchOp

\* The four known layers, the empty string and a string that is no layer.
LayerInputs == KnownLayers \cup {"", "physical"}

NoLayerOp ==
    [called |-> FALSE, source |-> "", via |-> "", target |-> "",
     sourceToVia |-> FALSE, viaToTarget |-> FALSE, sourceToTarget |-> FALSE]

\* CanAccessLayer has not been called.
LayerIdle == layerOp = NoLayerOp

\* Three layers are chosen; CanAccessLayer is called on each pair of them
\* in order.
LayerInit ==
    /\ devices = NewDeviceRegistry.devices
    /\ tokens = NewDeviceRegistry.tokens
    /\ regOp = NoRegOp
    /\ regPre = NewDeviceRegistry
    /\ firstReg = EmptyMap
    /\ PolicyIdle
    /\ ConcIdle
    /\ GateIdle
    /\ RaceIdle
    /\ AuditIdle
    /\ MatchIdle
    /\ \E source \in LayerInputs, via \in LayerInputs, target \in LayerInputs :
          layerOp = [NoLayerOp EXCEPT !.source = source, !.via = via,
                                      !.target = target]

DoCanAccessLayer ==
    /\ ~layerOp.called
    /\ layerOp' = [layerOp EXCEPT
          !.called = TRUE,
          !.sourceToVia = CanAccessLayer(layerOp.source, layerOp.via),
          !.viaToTarget = CanAccessLayer(layerOp.via, layerOp.target),
          !.sourceToTarget = CanAccessLayer(layerOp.source, layerOp.target)]
    /\ UNCHANGED <<regVars, polVars, concVars, gateVars, raceVars, auditVars, matchVars>>

LayerNext == DoCanAccessLayer

SpecLayers == LayerInit /\ [][LayerNext]_vars

\* The order of the layers: Data=1 < Transport=2 < Control=3 < Application=4.
LayerRank(layer) ==
    CASE layer = "data" -> 1
      [] layer = "transport" -> 2
      [] layer = "control" -> 3
      [] layer = "application" -> 4
      [] OTHER -> 0

\* C25: CanAccessLayer(source, target) is true exactly if both layers are
\* known and the order of source is at most that of target; so it is
\* reflexive and transitive on known layers, false for a downward
\* transfer, and false if either layer is unknown.
C25_UpwardOnly ==
    layerOp.called =>
        /\ layerOp.sourceToTarget <=>
              /\ LayerRank(layerOp.source) >= 1
              /\ LayerRank(layerOp.target) >= 1
              /\ LayerRank(layerOp.source) <= LayerRank(layerOp.target)
        /\ (LayerRank(layerOp.source) >= 1 /\ layerOp.source = layerOp.target) =>
              layerOp.sourceToTarget
        /\ (layerOp.sourceToVia /\ layerOp.viaToTarget) => layerOp.sourceToTarget
        /\ LayerRank(layerOp.source) > LayerRank(layerOp.target) =>
              ~layerOp.sourceToTarget
        /\ (LayerRank(layerOp.source) = 0 \/ LayerRank(layerOp.target) = 0) =>
              ~layerOp.sourceToTarget

\* Application to application: a transfer within the highest layer.
C25_Witness ==
    /\ layerOp.called
    /\ layerOp.source = LayerApplication
    /\ layerOp.via = LayerApplication
    /\ layerOp.target = LayerApplication
    /\ layerOp.sourceToTarget

\* Control to transport: a downward transfer.
C25_WitnessDownward ==
    /\ layerOp.called
    /\ layerOp.source = LayerControl
    /\ layerOp.target = LayerTransport
    /\ ~layerOp.sourceToTarget

-----------------------------------------------------------------------------
(* Rules and contexts given to ruleMatches                                 *)

RouteDeep == <<"/", "s", "x">>

SPrefix == <<"/", "s", "*">>

\* Rules as ruleMatches may be handed them: each list empty or not, route
\* patterns exact, "*" and with a trailing "*".
MatchRules ==
    {[ID |-> "r", Name |-> "r", Effect |-> EffectAllow, Routes |-> routes,
      Methods |-> methods, RequiredClearance |-> clearance,
      AllowedLayers |-> layers, AllowedDevices |-> allowed,
      DeniedDevices |-> denied, Priority |-> 1] :
        routes \in {<<>>, <<RouteP>>, <<Star>>, <<SPrefix>>, <<RouteQ, RouteS>>},
        methods \in {<<>>, <<"GET">>, <<"*">>, <<"PUT", "POST">>},
        clearance \in {0, ClearanceLevel5},
        layers \in {<<>>, <<LayerControl>>, <<LayerData, LayerTransport>>},
        allowed \in {<<>>, <<1>>},
        denied \in {<<>>, <<2>>, <<3, 1>>}}

MatchContexts ==
    {Ctx(route, method, deviceID, layer, clearance) :
        route \in {RouteP, RouteS, RouteDeep},
        method \in {"GET", "POST"},
        deviceID \in {0, 1, 2},
        layer \in {"", LayerControl},
        clearance \in {0, ClearanceLevel3, ClearanceLevel5, ClearanceLevel7}}

MatchInit ==
    /\ devices = NewDeviceRegistry.devices
    /\ tokens = NewDeviceRegistry.tokens
    /\ regOp = NoRegOp
    /\ regPre = NewDeviceRegistry
    /\ firstReg = EmptyMap
    /\ PolicyIdle
    /\ ConcIdle
    /\ GateIdle
    /\ RaceIdle
    /\ AuditIdle
    /\ LayerIdle
    /\ matchOp = NoMatchOp

DoRuleMatches(rule, ctx) ==
    /\ ~matchOp.called
    /\ matchOp' = [called |-> TRUE, rule |-> rule, ctx |-> ctx,
                   result |-> ruleMatches(rule, ctx)]

MatchReturn ==
    /\ matchOp.called
    /\ matchOp' = NoMatchOp

MatchFrame ==
    UNCHANGED <<regVars, polVars, concVars, gateVars, raceVars, auditVars, layerVars>>

MatchNext ==
    \/ /\ ~matchOp.called
       /\ \E rule \in MatchRules, ctx \in MatchContexts :
             DoRuleMatches(rule, ctx) /\ MatchFrame
    \/ MatchReturn /\ MatchFrame

SpecMatch == MatchInit /\ [][MatchNext]_vars

\* s begins with the characters of p.
StartsWith(s, p) ==
    Len(p) <= Len(s) /\ \A i \in 1..Len(p) : s[i] = p[i]

\* A route pattern matches a route: the same string, "*", or a pattern
\* ending in "*" whose part before that "*" the route begins with.
PatternCovers(pattern, route) ==
    \/ pattern = route
    \/ pattern = <<"*">>
    \/ /\ Len(pattern) >= 1
       /\ pattern[Len(pattern)] = "*"
       /\ StartsWith(route, SubSeq(pattern, 1, Len(pattern) - 1))

InList(list, x) == \E i \in 1..Len(list) : list[i] = x

\* C26: a rule matches a context exactly if a route pattern matches the
\* route or the rule has no routes; a method is the context's or "*" or
\* the rule has no methods; the required clearance is zero or the
\* context's clearance is at least it; the rule has no allowed layers or
\* the context's layer is one; and the context's device is a denied device
\* of the rule, or the rule has no allowed devices or the device is one.
\* A denied device is looked at only after the first four have passed.
C26_RuleMatchesExactly ==
    matchOp.called =>
        LET rule == matchOp.rule
            ctx == matchOp.ctx
            routeOk == \/ rule.Routes = <<>>
                       \/ \E i \in 1..Len(rule.Routes) :
                             PatternCovers(rule.Routes[i], ctx.Route)
            methodOk == \/ rule.Methods = <<>>
                        \/ InList(rule.Methods, ctx.Method)
                        \/ InList(rule.Methods, "*")
            clearanceOk == \/ rule.RequiredClearance = 0
                           \/ ctx.Clearance >= rule.RequiredClearance
            layerOk == \/ rule.AllowedLayers = <<>>
                       \/ InList(rule.AllowedLayers, ctx.Layer)
            deviceOk == \/ InList(rule.DeniedDevices, ctx.DeviceID)
                        \/ rule.AllowedDevices = <<>>
                        \/ InList(rule.AllowedDevices, ctx.DeviceID)
        IN  /\ matchOp.result <=>
                  (routeOk /\ methodOk /\ clearanceOk /\ layerOk /\ deviceOk)
            /\ (InList(rule.DeniedDevices, ctx.DeviceID) /\ matchOp.result) =>
                  (routeOk /\ methodOk /\ clearanceOk /\ layerOk)

\* A rule with a trailing-"*" route pattern, an allowed-device list the
\* device is not in and a denied-device list it is in: it matches, by the
\* denied-device branch.
C26_Witness ==
    /\ matchOp.called
    /\ matchOp.rule.Routes = <<SPrefix>>
    /\ matchOp.ctx.Route = RouteDeep
    /\ matchOp.rule.AllowedDevices = <<1>>
    /\ matchOp.rule.DeniedDevices = <<2>>
    /\ matchOp.ctx.DeviceID = 2
    /\ matchOp.rule.RequiredClearance = ClearanceLevel5
    /\ matchOp.result

\* A denied device on a route the rule does not cover: no match.
C26_WitnessNoRoute ==
    /\ matchOp.called
    /\ matchOp.rule.Routes = <<RouteP>>
    /\ matchOp.ctx.Route = RouteS
    /\ matchOp.rule.DeniedDevices = <<2>>
    /\ matchOp.ctx.DeviceID = 2
    /\ ~matchOp.result

-----------------------------------------------------------------------------
(* The registry as a state machine                                         *)

RegistryInit ==
    /\ devices = NewDeviceRegistry.devices
    /\ tokens = NewDeviceRegistry.tokens
    /\ regOp = NoRegOp
    /\ regPre = NewDeviceRegistry
    /\ firstReg = EmptyMap
    /\ PolicyIdle
    /\ ConcIdle
    /\ GateIdle
    /\ RaceIdle
    /\ AuditIdle
    /\ LayerIdle
    /\ MatchIdle

DoRegister(device) ==
    LET res == Register(Registry, device)
    IN  /\ Cardinality(DOMAIN devices) < MaxRegistered \/ device.ID \in DOMAIN devices
        /\ devices' = res.devices
        /\ tokens' = res.tokens
        /\ regOp' = [op |-> "Register", id |-> device.ID,
                     existed |-> device.ID \in DOMAIN devices, err |-> res.err,
                     device |-> device, offset |-> 0]
        /\ regPre' = Registry
        /\ firstReg' = IF device.ID \in DOMAIN firstReg
                       THEN firstReg
                       ELSE MapSet(firstReg, device.ID, res.devices[device.ID])

DoGetDevice(deviceID) ==
    LET res == GetDevice(Registry, deviceID)
    IN  /\ regOp' = [op |-> "GetDevice", id |-> deviceID,
                     existed |-> deviceID \in DOMAIN devices, err |-> res.err,
                     device |-> res.device, offset |-> 0]
        /\ regPre' = NewDeviceRegistry
        /\ UNCHANGED <<devices, tokens, firstReg>>

DoGetDeviceByToken(tokenID) ==
    LET res == GetDeviceByToken(Registry, tokenID)
    IN  /\ regOp' = [op |-> "GetDeviceByToken", id |-> tokenID,
                     existed |-> tokenID \in DOMAIN tokens, err |-> res.err,
                     device |-> res.device, offset |-> res.offset]
        /\ regPre' = NewDeviceRegistry
        /\ UNCHANGED <<devices, tokens, firstReg>>

RegistryNext ==
    \/ \E device \in DeviceInputs : DoRegister(device) /\ UNCHANGED <<polVars, concVars, gateVars, raceVars, auditVars, layerVars, matchVars>>
    \/ \E deviceID \in SampleIDs : DoGetDevice(deviceID) /\ UNCHANGED <<polVars, concVars, gateVars, raceVars, auditVars, layerVars, matchVars>>
    \/ \E tokenID \in SampleTokens : DoGetDeviceByToken(tokenID) /\ UNCHANGED <<polVars, concVars, gateVars, raceVars, auditVars, layerVars, matchVars>>

SpecRegistry == RegistryInit /\ [][RegistryNext]_vars

-----------------------------------------------------------------------------
(* The registry under concurrent calls                                     *)

RaceInit ==
    /\ devices = NewDeviceRegistry.devices
    /\ tokens = NewDeviceRegistry.tokens
    /\ regOp = NoRegOp
    /\ regPre = NewDeviceRegistry
    /\ firstReg = EmptyMap
    /\ PolicyIdle
    /\ ConcIdle
    /\ GateIdle
    /\ RaceIdle
    /\ AuditIdle
    /\ LayerIdle
    /\ MatchIdle

\* The pcs at which Register is between its existence check and its last
\* map write.
Updating == {"store", "status", "config", "data"}

\* The map a goroutine's next step reads or writes, "" if it has none.
NextMapOfRegistrar(g) ==
    CASE regs[g].pc \in {"check", "store"} -> "devices"
      [] regs[g].pc \in {"status", "config", "data"} -> "tokens"
      [] OTHER -> ""

NextMapOfReader(q) ==
    CASE lookups[q].pc = "reading" /\ lookups[q].op = "GetDeviceByToken" -> "tokens"
      [] lookups[q].pc = "reading" -> "devices"
      [] OTHER -> ""

\* Register is called.
RegBegin(g, device) ==
    /\ ~fault
    /\ regs[g].pc = "idle"
    /\ regs' = [regs EXCEPT ![g] = [pc |-> "check", device |-> device,
                                    fresh |-> device.ID \notin DOMAIN devices,
                                    err |-> FALSE]]
    /\ UNCHANGED <<devices, tokens, lookups, fault>>

\* if _, exists := r.devices[device.ID]; exists { return error };
\* device.TokenBase = 0x8000 + device.ID*3
RegCheck(g) ==
    /\ ~fault
    /\ regs[g].pc = "check"
    /\ regs' = [regs EXCEPT ![g] =
                  IF regs[g].device.ID \in DOMAIN devices
                  THEN [@ EXCEPT !.pc = "done", !.err = TRUE]
                  ELSE [@ EXCEPT !.pc = "store",
                                 !.device.TokenBase =
                                     U16(TokenBaseAddr + U16(regs[g].device.ID * 3))]]
    /\ UNCHANGED <<devices, tokens, lookups, fault>>

\* r.devices[device.ID] = device
RegStore(g) ==
    /\ ~fault
    /\ regs[g].pc = "store"
    /\ devices' = MapSet(devices, regs[g].device.ID, regs[g].device)
    /\ regs' = [regs EXCEPT ![g].pc = "status"]
    /\ UNCHANGED <<tokens, lookups, fault>>

\* r.tokens[device.GetStatusToken()] = device, then the Config token, then
\* the Data token; Register returns nil after the last.
RegToken(g) ==
    /\ ~fault
    /\ regs[g].pc \in {"status", "config", "data"}
    /\ LET d == regs[g].device
           t == CASE regs[g].pc = "status" -> GetStatusToken(d)
                  [] regs[g].pc = "config" -> GetConfigToken(d)
                  [] OTHER -> GetDataToken(d)
       IN  tokens' = MapSet(tokens, t, d)
    /\ regs' = [regs EXCEPT ![g].pc = CASE regs[g].pc = "status" -> "config"
                                          [] regs[g].pc = "config" -> "data"
                                          [] OTHER -> "done"]
    /\ UNCHANGED <<devices, lookups, fault>>

\* The caller has Register's result.
RegReturn(g) ==
    /\ ~fault
    /\ regs[g].pc = "done"
    /\ regs' = [regs EXCEPT ![g] = IdleRegistrar]
    /\ UNCHANGED <<devices, tokens, lookups, fault>>

\* GetDevice, GetDeviceByToken or ListDevices is called.
LookupBegin(q, call) ==
    /\ ~fault
    /\ lookups[q].pc = "idle"
    /\ lookups' = [lookups EXCEPT ![q] = [IdleReader EXCEPT !.pc = "reading",
                                                            !.op = call.op,
                                                            !.arg = call.arg]]
    /\ UNCHANGED <<devices, tokens, regs, fault>>

\* The lookup reads its map and has its result; at and during record the
\* registry it read and the Register calls that were in their update.
LookupRead(q) ==
    /\ ~fault
    /\ lookups[q].pc = "reading"
    /\ LET byID == GetDevice(Registry, lookups[q].arg)
           byToken == GetDeviceByToken(Registry, lookups[q].arg)
           seen == [lookups[q] EXCEPT
                      !.pc = "done", !.at = Registry,
                      !.during = {g \in Registrars : regs[g].pc \in Updating}]
       IN  lookups' = [lookups EXCEPT ![q] =
                CASE lookups[q].op = "GetDevice" ->
                        [seen EXCEPT !.err = byID.err, !.device = byID.device]
                  [] lookups[q].op = "GetDeviceByToken" ->
                        [seen EXCEPT !.err = byToken.err, !.device = byToken.device,
                                     !.offset = byToken.offset]
                  [] OTHER -> [seen EXCEPT !.list = ListDevices(Registry)]]
    /\ UNCHANGED <<devices, tokens, regs, fault>>

\* The caller has the lookup's result.
LookupReturn(q) ==
    /\ ~fault
    /\ lookups[q].pc = "done"
    /\ lookups' = [lookups EXCEPT ![q] = IdleReader]
    /\ UNCHANGED <<devices, tokens, regs, fault>>

\* Two goroutines are at an access of the same map and one of the accesses
\* is a write: the Go runtime may end the program ("concurrent map writes",
\* "concurrent map read and map write").
RaceFault ==
    /\ ~fault
    /\ \E g \in Registrars :
          /\ regs[g].pc \in Updating
          /\ \/ \E h \in Registrars \ {g} :
                   NextMapOfRegistrar(h) = NextMapOfRegistrar(g)
             \/ \E q \in Readers : NextMapOfReader(q) = NextMapOfRegistrar(g)
    /\ fault' = TRUE
    /\ UNCHANGED <<devices, tokens, regs, lookups>>

RaceFrame == UNCHANGED <<regOp, regPre, firstReg, polVars, concVars, gateVars, auditVars, layerVars, matchVars>>

RaceNext ==
    \/ \E g \in Registrars, device \in RaceDevices : RegBegin(g, device) /\ RaceFrame
    \/ \E g \in Registrars : RegCheck(g) /\ RaceFrame
    \/ \E g \in Registrars : RegStore(g) /\ RaceFrame
    \/ \E g \in Registrars : RegToken(g) /\ RaceFrame
    \/ \E g \in Registrars : RegReturn(g) /\ RaceFrame
    \/ \E q \in Readers, call \in RaceLookups : LookupBegin(q, call) /\ RaceFrame
    \/ \E q \in Readers : LookupRead(q) /\ RaceFrame
    \/ \E q \in Readers : LookupReturn(q) /\ RaceFrame
    \/ RaceFault /\ RaceFrame

SpecRace == RaceInit /\ [][RaceNext]_vars

\* C11: when two Register calls for the same device ID, absent when each
\* was called, have both returned, exactly one of them has succeeded and
\* the other has failed; and while a Register is between its existence
\* check and its last write no other Register is, and no lookup reads.
C11_RegisterIsExclusive ==
    /\ \A g, h \in Registrars :
          (/\ g # h
           /\ regs[g].pc = "done" /\ regs[h].pc = "done"
           /\ regs[g].device.ID = regs[h].device.ID
           /\ regs[g].fresh /\ regs[h].fresh)
          => (regs[g].err # regs[h].err)
    /\ \A g, h \in Registrars :
          (g # h /\ regs[g].pc \in Updating) => regs[h].pc \notin Updating
    /\ \A q \in Readers : lookups[q].pc = "done" => lookups[q].during = {}

\* Every device of the ID map has its three tokens in the token index.
Indexed(r) ==
    \A id \in DOMAIN r.devices : \A o \in TokenOffsets :
        ComputeToken(r.devices[id], o) \in DOMAIN r.tokens

\* C12: the registry a lookup read, concurrently with Register or not, had
\* the three token entries of every device of its ID map; so a lookup by a
\* token of a device of the ID map did not fail.
C12_LookupSeesBothIndexes ==
    \A q \in Readers :
        lookups[q].pc = "done" =>
            /\ Indexed(lookups[q].at)
            /\ (lookups[q].op = "GetDeviceByToken" /\ lookups[q].err) =>
                  ~\E id \in DOMAIN lookups[q].at.devices, o \in TokenOffsets :
                      ComputeToken(lookups[q].at.devices[id], o) = lookups[q].arg

-----------------------------------------------------------------------------
(* The policy engine as a state machine, one call at a time: a call runs   *)
(* whole, polOp holds it and its result until the caller goes on.          *)

\* The registry main.go hands to NewEngine: devices 1 and 2 registered.
StartRegistry ==
    LET r1 == Register(NewDeviceRegistry, Dev(1, LayerData, ClearanceLevel3, "a"))
    IN  Register([devices |-> r1.devices, tokens |-> r1.tokens],
                 Dev(2, LayerControl, ClearanceLevel7, "b"))

Init ==
    /\ devices = StartRegistry.devices
    /\ tokens = StartRegistry.tokens
    /\ regOp = NoRegOp
    /\ regPre = NewDeviceRegistry
    /\ firstReg = StartRegistry.devices
    /\ policy = NewEnginePolicy
    /\ hasRegistry \in BOOLEAN
    /\ polOp = NoPolOp
    /\ polPre = NewEnginePolicy
    /\ ConcIdle
    /\ GateIdle
    /\ RaceIdle
    /\ AuditIdle
    /\ LayerIdle
    /\ MatchIdle

DoLoadFromJSON(data) ==
    LET res == LoadFromJSON(policy, hasRegistry, Registry, data)
    IN  /\ polOp.op = "none"
        /\ policy' = res.policy
        /\ polOp' = [op |-> "LoadFromJSON", err |-> res.err, readable |-> TRUE,
                     data |-> data, ctx |-> NoCtx, decision |-> NoDecision]
        /\ polPre' = policy
        /\ UNCHANGED <<hasRegistry, regVars, concVars, gateVars, raceVars, auditVars, layerVars, matchVars>>

DoLoadFromFile(file) ==
    LET res == LoadFromFile(policy, hasRegistry, Registry, file)
    IN  /\ polOp.op = "none"
        /\ policy' = res.policy
        /\ polOp' = [op |-> "LoadFromFile", err |-> res.err,
                     readable |-> file.readable, data |-> file.data,
                     ctx |-> NoCtx, decision |-> NoDecision]
        /\ polPre' = policy
        /\ UNCHANGED <<hasRegistry, regVars, concVars, gateVars, raceVars, auditVars, layerVars, matchVars>>

DoEvaluate(ctx) ==
    /\ polOp.op = "none"
    /\ polOp' = [op |-> "Evaluate", err |-> "", readable |-> TRUE, data |-> NoData,
                 ctx |-> ctx, decision |-> Evaluate(policy, ctx)]
    /\ polPre' = policy
    /\ UNCHANGED <<policy, hasRegistry, regVars, concVars, gateVars, raceVars, auditVars, layerVars, matchVars>>

\* The caller takes the result of its call and goes on.
PolicyReturn ==
    /\ polOp.op # "none"
    /\ polOp' = NoPolOp
    /\ polPre' = policy
    /\ UNCHANGED <<policy, hasRegistry, regVars, concVars, gateVars, raceVars, auditVars, layerVars, matchVars>>

Next ==
    \/ \E data \in PolicyData : DoLoadFromJSON(data)
    \/ \E file \in PolicyFiles : DoLoadFromFile(file)
    \/ \E ctx \in Contexts : DoEvaluate(ctx)
    \/ PolicyReturn

Spec == Init /\ [][Next]_vars

-----------------------------------------------------------------------------
(* The policy engine under concurrent calls: each goroutine takes one step *)
(* at a time through LoadFromJSON or Evaluate.                             *)

ConcInit ==
    /\ devices = StartRegistry.devices
    /\ tokens = StartRegistry.tokens
    /\ regOp = NoRegOp
    /\ regPre = NewDeviceRegistry
    /\ firstReg = StartRegistry.devices
    /\ PolicyIdle
    /\ ConcIdle
    /\ GateIdle
    /\ RaceIdle
    /\ AuditIdle
    /\ LayerIdle
    /\ MatchIdle

\* LoadFromJSON up to its e.mu.Lock(): decode and validate, return on error.
LoaderBegin(l, data) ==
    LET parsed == Unmarshal(data)
        verr == Validate(hasRegistry, Registry, parsed.policy)
    IN  /\ loaders[l].pc = "idle"
        /\ loaders' = [loaders EXCEPT ![l] =
              IF parsed.err
              THEN [pc |-> "done", policy |-> NewEnginePolicy,
                    err |-> "failed to parse policy JSON"]
              ELSE IF verr # ""
              THEN [pc |-> "done", policy |-> NewEnginePolicy, err |-> verr]
              ELSE [pc |-> "lock", policy |-> parsed.policy, err |-> ""]]
        /\ UNCHANGED <<policy, mu, evals, installed>>

\* e.mu.Lock() is called: the writer waits, and holds new readers off.
LoaderLock(l) ==
    /\ loaders[l].pc = "lock"
    /\ mu' = [mu EXCEPT !.pending = @ \cup {l}]
    /\ loaders' = [loaders EXCEPT ![l].pc = "waiting"]
    /\ UNCHANGED <<policy, evals, installed>>

\* e.mu.Lock() returns.
LoaderAcquire(l) ==
    /\ loaders[l].pc = "waiting"
    /\ CanLock(mu)
    /\ mu' = [mu EXCEPT !.writer = l, !.pending = @ \ {l}]
    /\ loaders' = [loaders EXCEPT ![l].pc = "swap"]
    /\ UNCHANGED <<policy, evals, installed>>

\* e.policy = &policy
LoaderSwap(l) ==
    /\ loaders[l].pc = "swap"
    /\ policy' = loaders[l].policy
    /\ installed' = installed \cup {loaders[l].policy}
    /\ loaders' = [loaders EXCEPT ![l].pc = "unlock"]
    /\ UNCHANGED <<mu, evals>>

\* The deferred e.mu.Unlock(), and return nil.
LoaderUnlock(l) ==
    /\ loaders[l].pc = "unlock"
    /\ mu' = [mu EXCEPT !.writer = NoHolder]
    /\ loaders' = [loaders EXCEPT ![l].pc = "done"]
    /\ UNCHANGED <<policy, evals, installed>>

\* The caller of LoadFromJSON goes on.
LoaderReturn(l) ==
    /\ loaders[l].pc = "done"
    /\ loaders' = [loaders EXCEPT ![l] = IdleLoader]
    /\ UNCHANGED <<policy, mu, evals, installed>>

\* e.mu.RLock() returns in Evaluate.
EvalRLock(e, ctx) ==
    /\ evals[e].pc = "idle"
    /\ CanRLock(mu)
    /\ mu' = [mu EXCEPT !.readers = @ \cup {e}]
    /\ evals' = [evals EXCEPT ![e] =
          [IdleEvaluator EXCEPT !.pc = "range", !.ctx = ctx, !.seen = policy]]
    /\ UNCHANGED <<policy, loaders, installed>>

\* The range expression e.policy.Rules is read, once, with the locals set.
EvalRange(e) ==
    /\ evals[e].pc = "range"
    /\ evals' = [evals EXCEPT ![e].pc = "loop", ![e].rules = policy.Rules,
                              ![e].i = 1, ![e].acc = EvalStart]
    /\ UNCHANGED <<policy, mu, loaders, installed>>

\* One iteration of the loop.
EvalIterate(e) ==
    /\ evals[e].pc = "loop"
    /\ evals[e].i <= Len(evals[e].rules)
    /\ evals' = [evals EXCEPT
          ![e].acc = EvalLoopBody(evals[e].rules, evals[e].i, evals[e].ctx, @),
          ![e].i = @ + 1]
    /\ UNCHANGED <<policy, mu, loaders, installed>>

\* The loop has ended: the decision is built, the deferred RUnlock runs.
EvalFinish(e) ==
    /\ evals[e].pc = "loop"
    /\ evals[e].i > Len(evals[e].rules)
    /\ mu' = [mu EXCEPT !.readers = @ \ {e}]
    /\ evals' = [evals EXCEPT
          ![e].pc = "done",
          ![e].decision = MakeDecision(evals[e].rules, evals[e].acc)]
    /\ UNCHANGED <<policy, loaders, installed>>

\* The caller of Evaluate goes on.
EvalReturn(e) ==
    /\ evals[e].pc = "done"
    /\ evals' = [evals EXCEPT ![e] = IdleEvaluator]
    /\ UNCHANGED <<policy, mu, loaders, installed>>

ConcFrame == UNCHANGED <<regVars, hasRegistry, polOp, polPre, gateVars, raceVars, auditVars, layerVars, matchVars>>

ConcNext ==
    \/ \E l \in Loaders : \E data \in ConcData : LoaderBegin(l, data) /\ ConcFrame
    \/ \E l \in Loaders : LoaderLock(l) /\ ConcFrame
    \/ \E l \in Loaders : LoaderAcquire(l) /\ ConcFrame
    \/ \E l \in Loaders : LoaderSwap(l) /\ ConcFrame
    \/ \E l \in Loaders : LoaderUnlock(l) /\ ConcFrame
    \/ \E l \in Loaders : LoaderReturn(l) /\ ConcFrame
    \/ \E e \in Evaluators : \E ctx \in ConcContexts : EvalRLock(e, ctx) /\ ConcFrame
    \/ \E e \in Evaluators : EvalRange(e) /\ ConcFrame
    \/ \E e \in Evaluators : EvalIterate(e) /\ ConcFrame
    \/ \E e \in Evaluators : EvalFinish(e) /\ ConcFrame
    \/ \E e \in Evaluators : EvalReturn(e) /\ ConcFrame

SpecConc == ConcInit /\ [][ConcNext]_vars

-----------------------------------------------------------------------------
(* The middleware as a state machine: requests are handled one at a time,  *)
(* policies are loaded between them.                                       *)

GateInit ==
    /\ devices = StartRegistry.devices
    /\ tokens = StartRegistry.tokens
    /\ regOp = NoRegOp
    /\ regPre = NewDeviceRegistry
    /\ firstReg = StartRegistry.devices
    /\ PolicyIdle
    /\ ConcIdle
    /\ \E setup \in GateSetups :
          /\ gateCfg = setup.cfg
          /\ auditLogger = setup.lg
    /\ gateOut = [req |-> NoReq, out |-> NoOutcome]
    /\ RaceIdle
    /\ AuditIdle
    /\ LayerIdle
    /\ MatchIdle

\* The middleware handles one request.
DoRequest(req) ==
    /\ gateOut.out.state = "none"
    /\ gateOut' = [req |-> req,
                   out |-> Clearance(gateCfg, auditLogger, Registry, policy, req)]
    /\ UNCHANGED <<gateCfg, auditLogger, policy>>

\* The response is out; the next request may come.
GateReturn ==
    /\ gateOut.out.state # "none"
    /\ gateOut' = [req |-> NoReq, out |-> NoOutcome]
    /\ UNCHANGED <<gateCfg, auditLogger, policy>>

\* A policy is loaded between requests.
GateLoad(data) ==
    /\ gateOut.out.state = "none"
    /\ policy' = LoadFromJSON(policy, hasRegistry, Registry, data).policy
    /\ UNCHANGED <<gateCfg, auditLogger, gateOut>>

GateFrame == UNCHANGED <<regVars, hasRegistry, polOp, polPre, concVars, raceVars, auditVars, layerVars, matchVars>>

GateNext ==
    \/ \E req \in Requests : DoRequest(req) /\ GateFrame
    \/ GateReturn /\ GateFrame
    \/ \E data \in GateData : GateLoad(data) /\ GateFrame

SpecGate == GateInit /\ [][GateNext]_vars

-----------------------------------------------------------------------------
(* The audit logger as a state machine                                     *)

AuditInit ==
    /\ devices = NewDeviceRegistry.devices
    /\ tokens = NewDeviceRegistry.tokens
    /\ regOp = NoRegOp
    /\ regPre = NewDeviceRegistry
    /\ firstReg = EmptyMap
    /\ PolicyIdle
    /\ ConcIdle
    /\ GateIdle
    /\ RaceIdle
    /\ AuditIdle
    /\ LayerIdle
    /\ MatchIdle

DoAddWriter(w) ==
    /\ logOp.op = "none"
    /\ Len(auditLogger.writers) < MaxWriters
    /\ auditLogger' = AddWriter(auditLogger, w)
    /\ UNCHANGED logOp

DoSetEnabled(enabled) ==
    /\ logOp.op = "none"
    /\ auditLogger' = SetEnabled(auditLogger, enabled)
    /\ UNCHANGED logOp

DoLog(event) ==
    /\ logOp.op = "none"
    /\ logOp' = [op |-> "Log", event |-> event, enabled |-> auditLogger.enabled,
                 writers |-> auditLogger.writers, res |-> Log(auditLogger, event)]
    /\ UNCHANGED auditLogger

\* The caller has Log's result.
LogReturn ==
    /\ logOp.op = "Log"
    /\ logOp' = NoLogOp
    /\ UNCHANGED auditLogger

AuditFrame ==
    UNCHANGED <<regVars, polVars, concVars, gateCfg, gateOut, raceVars, layerVars, matchVars>>

AuditNext ==
    \/ \E w \in WriterKinds : DoAddWriter(w) /\ AuditFrame
    \/ \E enabled \in BOOLEAN : DoSetEnabled(enabled) /\ AuditFrame
    \/ \E event \in LogEvents : DoLog(event) /\ AuditFrame
    \/ LogReturn /\ AuditFrame

SpecAudit == AuditInit /\ [][AuditNext]_vars

-----------------------------------------------------------------------------
(* Claims about the audit logger                                           *)

Logged == logOp.op = "Log"

\* The positions of the writers that failed on the logged event.
FailedWriters == {k \in 1..Len(logOp.writers) : logOp.writers[k] # "ok"}

\* C21: Log on an enabled logger has invoked Write once on every
\* registered writer, in the order of registration, whether or not an
\* earlier writer failed; it returns the error of the last writer that
\* failed, and nil if none failed.
C21_EveryWriterWritten ==
    (Logged /\ logOp.enabled) =>
        /\ Len(logOp.res.writes) = Len(logOp.writers)
        /\ \A k \in 1..Len(logOp.writers) : logOp.res.writes[k].writer = k
        /\ FailedWriters = {} => logOp.res.err = ""
        /\ FailedWriters # {} =>
              \E k \in FailedWriters :
                  /\ \A j \in FailedWriters : j <= k
                  /\ logOp.res.err = logOp.writers[k]

\* Three writers, the first failing with one error, the second with
\* another, the third succeeding: all three written, the second's error
\* returned.
C21_Witness ==
    /\ Logged /\ logOp.enabled
    /\ logOp.writers = <<"disk full", "timeout", "ok">>
    /\ Len(logOp.res.writes) = 3
    /\ logOp.res.err = "timeout"

\* C22: Log on a disabled logger has invoked no writer, returns nil and
\* leaves the event as it was, no event ID and no timestamp assigned,
\* however many writers are registered.
C22_DisabledLogIsNoOp ==
    (Logged /\ ~logOp.enabled) =>
        /\ logOp.res.writes = <<>>
        /\ logOp.res.err = ""
        /\ logOp.res.event = logOp.event

\* A disabled logger with three writers, one of them failing, and an event
\* without ID and timestamp.
C22_Witness ==
    /\ Logged /\ ~logOp.enabled
    /\ Len(logOp.writers) = MaxWriters
    /\ FailedWriters # {}
    /\ logOp.event.EventID = ""
    /\ logOp.res.event.EventID = ""
    /\ logOp.res.event.Timestamp = 0

\* C23: after Log on an enabled logger the event has a non-empty event ID
\* and a non-zero timestamp; every writer received the event with these
\* values; an event ID or a timestamp the caller had set is unchanged, and
\* so is every other field.
C23_EventStamped ==
    (Logged /\ logOp.enabled) =>
        LET ev == logOp.res.event
        IN  /\ ev.EventID # ""
            /\ ev.Timestamp # 0
            /\ \A k \in 1..Len(logOp.res.writes) : logOp.res.writes[k].event = ev
            /\ logOp.event.EventID # "" => ev.EventID = logOp.event.EventID
            /\ logOp.event.Timestamp # 0 => ev.Timestamp = logOp.event.Timestamp
            /\ ev = [logOp.event EXCEPT !.EventID = ev.EventID,
                                        !.Timestamp = ev.Timestamp]

\* An event with the caller's ID and no timestamp, logged to two writers:
\* the ID is kept, the timestamp assigned.
C23_Witness ==
    /\ Logged /\ logOp.enabled
    /\ Len(logOp.writers) = 2
    /\ logOp.event.EventID = "evt-caller"
    /\ logOp.event.Timestamp = 0
    /\ logOp.res.event.EventID = "evt-caller"
    /\ logOp.res.event.Timestamp = ClockNow

-----------------------------------------------------------------------------
(* Claims about the middleware                                             *)

Handled == gateOut.out.state # "none"

\* C3: with the gate enabled and a policy engine configured, the downstream
\* handler runs (PASS) only if Evaluate, on the active policy and the
\* context resolved for the request, returned allow; and whenever Evaluate
\* returned deny the request ends in REJECT with status 403, the
\* decision's reason in the body, and the downstream handler not run.
C3_PassOnlyOnAllow ==
    (gateCfg.Enabled /\ gateCfg.PolicyEngine /\ Handled) =>
        LET o == gateOut.out
        IN  /\ o.state \in {"PASS", "REJECT"}
            /\ o.next <=> o.state = "PASS"
            /\ o.state = "PASS" =>
                  /\ o.evaluated
                  /\ o.decision.Effect = EffectAllow
                  /\ o.status = 0
            /\ o.evaluated =>
                  /\ o.policyCtx.Route = gateOut.req.Path
                  /\ o.policyCtx.Method = gateOut.req.Method
                  /\ o.decision = Evaluate(policy, o.policyCtx)
            /\ (o.evaluated /\ o.decision.Effect = EffectDeny) =>
                  /\ o.state = "REJECT"
                  /\ o.status = StatusForbidden
                  /\ o.error = "access denied"
                  /\ o.reason = o.decision.Reason
                  /\ ~o.next

\* A request of a registered device that a rule of the loaded policy denies.
C3_Witness ==
    /\ gateCfg.Enabled /\ gateCfg.PolicyEngine
    /\ gateOut.out.evaluated
    /\ gateOut.out.decision.Effect = EffectDeny
    /\ gateOut.out.decision.RuleID # ""
    /\ gateOut.out.policyCtx.DeviceID > 0
    /\ gateOut.out.status = StatusForbidden

\* An audit event and the event a writer received are the same but for the
\* event ID and the timestamp the logger fills in.
SameEvent(written, event) ==
    written = [event EXCEPT !.EventID = written.EventID,
                            !.Timestamp = written.Timestamp]

\* C4: with the gate enabled and a policy engine and an audit logger
\* configured, every handled request, whichever way it ended, has handed
\* exactly one audit event to the logger (which an enabled logger has
\* written once to each of its writers); the event's decision is allow if
\* and only if the request ended in PASS; and a request rejected before
\* policy evaluation has its one event with actor "unknown" and decision
\* deny.
C4_ExactlyOneAuditEvent ==
    (gateCfg.Enabled /\ gateCfg.PolicyEngine /\ gateCfg.AuditLogger /\ Handled) =>
        LET o == gateOut.out
        IN  /\ Len(o.logCalls) = 1
            /\ o.logCalls[1].Decision \in {DecisionAllow, DecisionDeny}
            /\ o.logCalls[1].Decision = DecisionAllow <=> o.state = "PASS"
            /\ ~o.evaluated =>
                  /\ o.state = "REJECT"
                  /\ o.status = StatusUnauthorized
                  /\ o.logCalls[1].Actor = ActorUnknown
                  /\ o.logCalls[1].Decision = DecisionDeny
            /\ o.evaluated =>
                  /\ o.logCalls[1].Actor = DeviceActor(o.policyCtx.DeviceID)
                  /\ o.logCalls[1].Reason = o.decision.Reason
            /\ auditLogger.enabled =>
                  /\ Len(o.writes) = Len(auditLogger.writers)
                  /\ \A k \in 1..Len(o.writes) :
                        /\ o.writes[k].writer = k
                        /\ SameEvent(o.writes[k].event, o.logCalls[1])
            /\ ~auditLogger.enabled => o.writes = <<>>

\* A request rejected before policy evaluation, its one event written to
\* both writers of the logger, the first of which failed.
C4_Witness ==
    /\ gateCfg.Enabled /\ gateCfg.PolicyEngine /\ gateCfg.AuditLogger
    /\ gateOut.out.state = "REJECT"
    /\ ~gateOut.out.evaluated
    /\ Len(gateOut.out.logCalls) = 1
    /\ gateOut.out.logCalls[1].Actor = ActorUnknown
    /\ Len(gateOut.out.writes) = 2
    /\ gateOut.out.logErr # ""

\* What makes each attribute of a request malformed or invalid.
BadDeviceID(req) ==
    req.DeviceID # <<>> /\ ParseUint(req.DeviceID, 10, MaxUint16).err

ClearanceOf(req) ==
    ParseUint(TrimPrefix(TrimPrefix(req.Clearance, Prefix0x), Prefix0X), 16,
              MaxClearance)

BadClearance(req) ==
    req.Clearance # <<>> /\ (ClearanceOf(req).err \/ ~ValidateClearance(ClearanceOf(req).val))

BadLayer(req) == req.Layer # "" /\ req.Layer \notin KnownLayers

BadTokenID(req) ==
    req.TokenID # <<>> /\ ParseUint(req.TokenID, 10, MaxUint16).err

BadRequest(req) ==
    BadDeviceID(req) \/ BadClearance(req) \/ BadLayer(req) \/ BadTokenID(req)

\* The request carries a well-formed token ID, and what the registry has
\* for it.
HasToken(req) == req.TokenID # <<>> /\ ~BadTokenID(req)

TokenLookup(req) == GetDeviceByToken(Registry, ParseUint(req.TokenID, 10, MaxUint16).val)

TokenResolves(req) == HasToken(req) /\ ~TokenLookup(req).err

\* C15: a request to an enabled gate with a malformed or invalid device ID,
\* clearance, layer or token ID ends in REJECT with status 401 and a reason
\* that names an attribute of the request that is invalid; no registry
\* lookup and no policy evaluation was made for it; and with an audit
\* logger configured one event was logged, actor "unknown", decision deny.
C15_InvalidFieldRejectedEarly ==
    (gateCfg.Enabled /\ Handled /\ BadRequest(gateOut.req)) =>
        LET o == gateOut.out
            req == gateOut.req
        IN  /\ o.state = "REJECT"
            /\ o.status = StatusUnauthorized
            /\ o.error = "unauthorized"
            /\ ~o.next
            /\ \/ o.reason = <<"invalid device ID">> /\ BadDeviceID(req)
               \/ o.reason = <<"invalid clearance format">> /\ BadClearance(req)
               \/ o.reason = <<"invalid clearance level">> /\ BadClearance(req)
               \/ o.reason = <<"invalid layer">> /\ BadLayer(req)
               \/ o.reason = <<"invalid token ID">> /\ BadTokenID(req)
            /\ o.tokenLookups = 0
            /\ o.deviceLookups = 0
            /\ ~o.evaluated
            /\ gateCfg.AuditLogger =>
                  /\ Len(o.logCalls) = 1
                  /\ o.logCalls[1].Actor = ActorUnknown
                  /\ o.logCalls[1].Decision = DecisionDeny
                  /\ o.logCalls[1].Reason = o.reason

\* A malformed token ID on a request that names a registered device, at a
\* gate with everything configured.
C15_Witness ==
    /\ gateCfg = AllSet
    /\ gateOut.req.DeviceID = Chars(1)
    /\ ~BadDeviceID(gateOut.req) /\ ~BadClearance(gateOut.req)
    /\ ~BadLayer(gateOut.req) /\ BadTokenID(gateOut.req)
    /\ gateOut.out.state = "REJECT"
    /\ gateOut.out.reason = <<"invalid token ID">>
    /\ gateOut.out.deviceLookups = 0

\* C16: a request to an enabled gate with a registry, carrying a
\* well-formed token ID that the registry does not resolve, never reaches
\* PASS, and with an audit logger configured its rejection is logged.
C16_UnknownTokenRejected ==
    (/\ gateCfg.Enabled /\ gateCfg.DeviceRegistry /\ Handled
     /\ HasToken(gateOut.req) /\ TokenLookup(gateOut.req).err) =>
        /\ gateOut.out.state = "REJECT"
        /\ ~gateOut.out.next
        /\ gateCfg.AuditLogger =>
              /\ Len(gateOut.out.logCalls) = 1
              /\ gateOut.out.logCalls[1].Decision = DecisionDeny

\* C17: a request to an enabled gate with a registry, its attributes well
\* formed and no token resolved, that carries a device ID that is not
\* registered ends in REJECT with reason "device not registered" and
\* without policy evaluation.
C17_UnregisteredDeviceRejected ==
    (/\ gateCfg.Enabled /\ gateCfg.DeviceRegistry /\ Handled
     /\ ~BadRequest(gateOut.req) /\ ~TokenResolves(gateOut.req)
     /\ gateOut.req.DeviceID # <<>>
     /\ ParseUint(gateOut.req.DeviceID, 10, MaxUint16).val \notin DOMAIN devices) =>
        /\ gateOut.out.state = "REJECT"
        /\ gateOut.out.status = StatusUnauthorized
        /\ gateOut.out.reason = <<"device not registered">>
        /\ ~gateOut.out.evaluated
        /\ ~gateOut.out.next

\* C18: if the token ID of a request to an enabled gate resolves in the
\* registry, the device ID, the layer and the clearance of the policy
\* context and of the audit event are those of the token's device,
\* whatever device ID, layer and clearance the request carries.
C18_TokenOverridesIdentity ==
    (/\ gateCfg.Enabled /\ gateCfg.DeviceRegistry /\ Handled
     /\ TokenResolves(gateOut.req) /\ gateOut.out.evaluated) =>
        LET o == gateOut.out
            dev == TokenLookup(gateOut.req).device
        IN  /\ o.policyCtx.DeviceID = dev.ID
            /\ o.policyCtx.Layer = dev.Layer
            /\ o.policyCtx.Clearance = dev.Clearance
            /\ o.policyCtx.TokenOffset = TokenLookup(gateOut.req).offset
            /\ gateCfg.AuditLogger =>
                  /\ Len(o.logCalls) = 1
                  /\ o.logCalls[1].DeviceID = dev.ID
                  /\ o.logCalls[1].Layer = dev.Layer
                  /\ o.logCalls[1].Clearance = dev.Clearance
                  /\ o.logCalls[1].Actor = DeviceActor(dev.ID)

\* A token of device 1 on a request that names device 2, the control layer
\* and a level 9 clearance.
C18_Witness ==
    /\ gateCfg = AllSet
    /\ TokenResolves(gateOut.req)
    /\ TokenLookup(gateOut.req).device.ID = 1
    /\ gateOut.req.DeviceID = Chars(2)
    /\ gateOut.req.Layer = LayerControl
    /\ gateOut.req.Clearance = HexL9
    /\ gateOut.out.evaluated
    /\ Len(gateOut.out.logCalls) = 1

\* The request carries a well-formed device ID the registry has, and no
\* token has replaced it.
DeviceResolves(req) ==
    /\ req.DeviceID # <<>> /\ ~BadDeviceID(req)
    /\ ~GetDevice(Registry, ParseUint(req.DeviceID, 10, MaxUint16).val).err

\* C19: when the gate has resolved the request to a registered device, by
\* its token or by its device ID, a clearance (a layer) the request did not
\* supply is in the policy context the one of the device record; and one
\* the request did supply, no token having overridden it, is in the policy
\* context as supplied.
C19_DefaultsFromDevice ==
    (/\ gateCfg.Enabled /\ gateCfg.DeviceRegistry /\ Handled
     /\ gateOut.out.evaluated /\ gateOut.out.deviceLookups = 1) =>
        LET o == gateOut.out
            req == gateOut.req
            dev == IF TokenResolves(req) THEN TokenLookup(req).device
                   ELSE GetDevice(Registry,
                                  ParseUint(req.DeviceID, 10, MaxUint16).val).device
        IN  /\ TokenResolves(req) \/ DeviceResolves(req)
            /\ o.ctxDevice = dev \/ o.state = "REJECT"
            /\ req.Clearance = <<>> => o.policyCtx.Clearance = dev.Clearance
            /\ req.Layer = "" => o.policyCtx.Layer = dev.Layer
            /\ (~TokenResolves(req) /\ req.Clearance # <<>>) =>
                  o.policyCtx.Clearance = ClearanceOf(req).val
            /\ (~TokenResolves(req) /\ req.Layer # "") =>
                  o.policyCtx.Layer = req.Layer

\* Device 2 named by its ID, no token, no clearance and no layer supplied:
\* the policy context has the clearance and the layer of its record.
C19_Witness ==
    /\ gateCfg.Enabled /\ gateCfg.DeviceRegistry
    /\ gateOut.req.DeviceID = Chars(2)
    /\ gateOut.req.TokenID = <<>>
    /\ gateOut.req.Clearance = <<>>
    /\ gateOut.req.Layer = ""
    /\ gateOut.out.evaluated
    /\ gateOut.out.policyCtx.Clearance = ClearanceLevel7
    /\ gateOut.out.policyCtx.Layer = LayerControl

\* Device 1 named by its ID with a level 9 clearance and the control layer
\* supplied: the policy context has the supplied values.
C19_WitnessSupplied ==
    /\ gateCfg.Enabled /\ gateCfg.DeviceRegistry
    /\ gateOut.req.DeviceID = Chars(1)
    /\ gateOut.req.TokenID = <<>>
    /\ gateOut.out.evaluated
    /\ gateOut.out.policyCtx.Clearance = ClearanceLevel9
    /\ gateOut.out.policyCtx.Layer = LayerControl

\* The handled request at the same gate with every audit writer being w.
WithWriters(w) ==
    Clearance(gateCfg, [auditLogger EXCEPT !.writers = [k \in DOMAIN @ |-> w]],
              Registry, policy, gateOut.req)

\* C20: the terminal state, the response and whether the downstream
\* handler ran are, for every handled request, what they are with every
\* audit writer succeeding and what they are with every audit writer
\* failing; and a failing writer keeps no other writer from its write.
C20_AuditFailureNotFatal ==
    (gateCfg.Enabled /\ Handled) =>
        LET o == gateOut.out
        IN  /\ o.state \in {"PASS", "REJECT"}
            /\ \A w \in {"ok", "fail"} :
                  /\ WithWriters(w).state = o.state
                  /\ WithWriters(w).status = o.status
                  /\ WithWriters(w).reason = o.reason
                  /\ WithWriters(w).next = o.next
                  /\ WithWriters(w).decision = o.decision
            /\ (auditLogger.enabled /\ o.logCalls # <<>>) =>
                  Len(o.writes) = Len(auditLogger.writers)

\* A request that passed although the first audit writer failed on its
\* event; the second writer has its write.
C20_Witness ==
    /\ gateCfg.Enabled
    /\ gateOut.out.state = "PASS"
    /\ gateOut.out.logErr # ""
    /\ auditLogger.writers = <<"fail", "ok">>
    /\ Len(gateOut.out.writes) = 2

\* C24: with enforcement disabled every request, whatever its attributes,
\* goes to PASS: the downstream handler runs, no response is written by
\* the gate, and no registry lookup, no policy evaluation and no audit
\* call is made.
C24_DisabledGatePasses ==
    (~gateCfg.Enabled /\ Handled) =>
        /\ gateOut.out.state = "PASS"
        /\ gateOut.out.next
        /\ gateOut.out.status = 0
        /\ gateOut.out.tokenLookups = 0
        /\ gateOut.out.deviceLookups = 0
        /\ ~gateOut.out.evaluated
        /\ gateOut.out.logCalls = <<>>
        /\ gateOut.out.writes = <<>>

\* A request with a malformed device ID and an unknown layer, passed by a
\* disabled gate that has a policy engine, a registry and an audit logger.
C24_Witness ==
    /\ ~gateCfg.Enabled
    /\ gateCfg.PolicyEngine /\ gateCfg.AuditLogger /\ gateCfg.DeviceRegistry
    /\ BadDeviceID(gateOut.req) /\ BadLayer(gateOut.req)
    /\ gateOut.out.state = "PASS"

\* The registered device a request resolves to: the one of its token, or
\* else the one of its device ID.
ResolvedDevice(req) ==
    IF TokenResolves(req) THEN TokenLookup(req).device
    ELSE GetDevice(Registry, ParseUint(req.DeviceID, 10, MaxUint16).val).device

\* C30: for a request that reached policy evaluation with a registered
\* device resolved, by its token or by its device ID, the clearance of the
\* policy context is not higher than the clearance the registry has for
\* the device.
C30_ClearanceBoundedByDevice ==
    (/\ gateCfg.Enabled /\ gateCfg.DeviceRegistry /\ Handled
     /\ gateOut.out.evaluated
     /\ TokenResolves(gateOut.req) \/ DeviceResolves(gateOut.req)) =>
        gateOut.out.policyCtx.Clearance <= ResolvedDevice(gateOut.req).Clearance

\* A request that passed, with its one allow event.
C4_WitnessPass ==
    /\ gateCfg.Enabled /\ gateCfg.PolicyEngine /\ gateCfg.AuditLogger
    /\ gateOut.out.state = "PASS"
    /\ Len(gateOut.out.logCalls) = 1
    /\ gateOut.out.logCalls[1].Decision = DecisionAllow
    /\ gateOut.out.logCalls[1].Actor = DeviceActor(1)

\* A request that passed by a rule with clearance, layer and device
\* conditions, its identity resolved from a token.
C3_WitnessPass ==
    /\ gateCfg.Enabled /\ gateCfg.PolicyEngine
    /\ gateOut.out.state = "PASS"
    /\ gateOut.out.decision.RuleID = "guarded"
    /\ gateOut.out.tokenLookups = 1
    /\ gateOut.req.DeviceID = <<>>

-----------------------------------------------------------------------------
(* Claims about the policy engine                                          *)

Loaded == polOp.op \in {"LoadFromJSON", "LoadFromFile"}

MatchingRules(ctx) == {k \in 1..Len(policy.Rules) : ruleMatches(policy.Rules[k], ctx)}

\* C1: whenever at least one rule of the active policy matches the context,
\* Evaluate returns the effect and the ID of a matching rule whose priority
\* is the maximum over all matching rules, for every integer priority.
C1_HighestPriorityMatchWins ==
    (polOp.op = "Evaluate" /\ MatchingRules(polOp.ctx) # {}) =>
        \E k \in MatchingRules(polOp.ctx) :
            /\ \A j \in MatchingRules(polOp.ctx) :
                  policy.Rules[j].Priority <= policy.Rules[k].Priority
            /\ polOp.decision.Effect = policy.Rules[k].Effect
            /\ polOp.decision.RuleID = policy.Rules[k].ID

\* The matching rules whose priority is the highest among the matching
\* rules.
TopRules(ctx) ==
    {k \in MatchingRules(ctx) :
        \A j \in MatchingRules(ctx) : policy.Rules[j].Priority <= policy.Rules[k].Priority}

\* C27: when several matching rules share the highest matching priority,
\* Evaluate returns the effect, the reason and the ID of the first of them
\* in the active policy's rule list; and evaluating the same context on the
\* same policy again returns the same decision.
C27_FirstOfTiedRulesWins ==
    (polOp.op = "Evaluate" /\ Cardinality(TopRules(polOp.ctx)) >= 2) =>
        LET first == CHOOSE k \in TopRules(polOp.ctx) :
                        \A j \in TopRules(polOp.ctx) : k <= j
        IN  /\ polOp.decision.RuleID = policy.Rules[first].ID
            /\ polOp.decision.Effect = policy.Rules[first].Effect
            /\ polOp.decision.Reason[2] = policy.Rules[first].Name
            /\ polOp.decision = Evaluate(policy, polOp.ctx)

\* C28: for the active policy, the empty one or one that loaded, and the
\* context evaluated, all the matching rules of the highest matching
\* priority have the same effect.
C28_TiedRulesAgree ==
    polOp.op = "Evaluate" =>
        \A j, k \in TopRules(polOp.ctx) :
            policy.Rules[j].Effect = policy.Rules[k].Effect

\* C29: Evaluate returns no allow decision by a rule that has the
\* context's device ID in its denied-device list.
C29_DeniedDeviceNeverAllowed ==
    polOp.op = "Evaluate" =>
        \A k \in 1..Len(policy.Rules) :
            (\E i \in 1..Len(policy.Rules[k].DeniedDevices) :
                policy.Rules[k].DeniedDevices[i] = polOp.ctx.DeviceID)
            => ~(/\ polOp.decision.Effect = EffectAllow
                 /\ polOp.decision.RuleID = policy.Rules[k].ID)

\* C2: Evaluate returns deny, reason "no matching policy rule" and an empty
\* rule ID and name whenever no rule of the active policy matches, a fresh
\* engine's empty policy included; every Evaluate returns a decision.
C2_DefaultDeny ==
    polOp.op = "Evaluate" =>
        /\ polOp.decision.Effect \in {EffectAllow, EffectDeny}
        /\ MatchingRules(polOp.ctx) = {} =>
              polOp.decision =
                  [Effect |-> "deny", Reason |-> <<"no matching policy rule">>,
                   RuleID |-> "", RuleName |-> ""]

\* Evaluate has run on a policy with rules, none of which matched.
C2_Witness ==
    /\ polOp.op = "Evaluate"
    /\ Len(policy.Rules) > 0
    /\ MatchingRules(polOp.ctx) = {}
    /\ polOp.decision.Effect = EffectDeny

\* The route patterns of two rules overlap as the claim has it: equal
\* patterns, or a wildcard pattern covering the other pattern.
Covers(wild, other) ==
    \/ wild = Star
    \/ HasSuffix(wild, Star) /\ HasPrefix(other, TrimSuffix(wild, Star))

RoutesOverlap(r1, r2) ==
    \E a \in 1..Len(r1.Routes) : \E b \in 1..Len(r2.Routes) :
        \/ r1.Routes[a] = r2.Routes[b]
        \/ Covers(r1.Routes[a], r2.Routes[b])
        \/ Covers(r2.Routes[b], r1.Routes[a])

MethodsOverlap(r1, r2) ==
    \E m \in 1..Len(r1.Methods) : \E n \in 1..Len(r2.Methods) :
        \/ r1.Methods[m] = r2.Methods[n]
        \/ r1.Methods[m] = "*"
        \/ r2.Methods[n] = "*"

Opposite(r1, r2) ==
    {r1.Effect, r2.Effect} = {EffectAllow, EffectDeny}

\* C5: a load is rejected whenever the policy holds two rules with the same
\* priority, opposite effects, overlapping routes (equal, or a wildcard
\* covering the other) and overlapping methods (equal, or either is "*").
C5_ConflictingPolicyRejected ==
    (Loaded /\ polOp.readable /\ ~Unmarshal(polOp.data).err) =>
        LET rules == Unmarshal(polOp.data).policy.Rules
        IN  (\E i \in 1..Len(rules) : \E j \in 1..Len(rules) :
                /\ i < j
                /\ rules[i] # NilRule /\ rules[j] # NilRule
                /\ rules[i].Priority = rules[j].Priority
                /\ Opposite(rules[i], rules[j])
                /\ RoutesOverlap(rules[i], rules[j])
                /\ MethodsOverlap(rules[i], rules[j]))
            => polOp.err # ""

\* C6: a load that fails leaves the active policy unchanged, so every
\* Evaluate decides as before it; a load that succeeds makes the active
\* policy exactly the loaded one.
C6_LoadIsAllOrNothing ==
    Loaded =>
        IF polOp.err # ""
        THEN /\ policy = polPre
             /\ \A ctx \in Contexts : Evaluate(policy, ctx) = Evaluate(polPre, ctx)
        ELSE /\ polOp.readable
             /\ ~Unmarshal(polOp.data).err
             /\ policy = Unmarshal(polOp.data).policy

\* A load of a well-formed document has failed validation while a loaded
\* policy with rules was active.
C6_Witness ==
    /\ Loaded
    /\ polOp.err \notin {"", "failed to parse policy JSON"}
    /\ Len(polPre.Rules) > 0
    /\ Unmarshal(polOp.data).policy # polPre

\* C8: the active policy has a non-empty version, and every rule of it has a
\* non-empty ID unique in the policy, effect allow or deny, a required
\* clearance that is zero or of level 2 to 9, allowed layers among the four
\* known ones and, with a registry attached, only registered devices in its
\* allowed and denied lists.
C8_ActivePolicyIsValid ==
    /\ policy.Version # ""
    /\ \A k \in 1..Len(policy.Rules) :
          LET rule == policy.Rules[k]
          IN  /\ rule # NilRule
              /\ rule.ID # ""
              /\ \A j \in 1..Len(policy.Rules) : j # k => policy.Rules[j].ID # rule.ID
              /\ rule.Effect \in {"allow", "deny"}
              /\ \/ rule.RequiredClearance = 0
                 \/ Level(rule.RequiredClearance) \in 2..9
              /\ SeqToSet(rule.AllowedLayers) \subseteq
                    {"data", "transport", "control", "application"}
              /\ hasRegistry =>
                    SeqToSet(rule.AllowedDevices) \cup SeqToSet(rule.DeniedDevices)
                        \subseteq DOMAIN devices

\* With a registry attached, a policy of several rules that names devices
\* is active after a load that failed.
C8_Witness ==
    /\ hasRegistry
    /\ Loaded
    /\ polOp.err # ""
    /\ Len(policy.Rules) > 1
    /\ \E k \in 1..Len(policy.Rules) : Len(policy.Rules[k].AllowedDevices) > 0

-----------------------------------------------------------------------------
(* Claims about the registry                                               *)

\* C9: after any sequence of successful Register calls with pairwise
\* distinct device IDs, every registered device still owns its three token
\* entries: tokens[ComputeToken(d, o)] = d for o in {0, 1, 2}.
C9_EveryDeviceOwnsItsTokens ==
    \A id \in DOMAIN devices : \A o \in TokenOffsets :
        /\ ComputeToken(devices[id], o) \in DOMAIN tokens
        /\ tokens[ComputeToken(devices[id], o)] = devices[id]

\* C13: GetDeviceByToken of a token that ComputeToken gives a registered
\* device d at offset o succeeds and returns d and o, whatever other
\* devices are registered; of a token of no registered device it fails.
C13_TokenRoundTrip ==
    regOp.op = "GetDeviceByToken" =>
        LET owners == {w \in (DOMAIN devices) \X TokenOffsets :
                          ComputeToken(devices[w[1]], w[2]) = regOp.id}
        IN  /\ \A w \in owners :
                  /\ ~regOp.err
                  /\ regOp.device = devices[w[1]]
                  /\ regOp.offset = w[2]
            /\ owners = {} => regOp.err

\* C14: for every registered device d and offset o, ComputeToken(d, o) is
\* the number 0x8000 + 3*d.ID + o, the Config and Data tokens are the Status
\* token plus 1 and plus 2, and the TokenBase Register wrote is the Status
\* token.
C14_TokenFormula ==
    \A id \in DOMAIN devices :
        /\ \A o \in TokenOffsets :
              ComputeToken(devices[id], o) = TokenBaseAddr + 3 * id + o
        /\ GetConfigToken(devices[id]) = GetStatusToken(devices[id]) + 1
        /\ GetDataToken(devices[id]) = GetStatusToken(devices[id]) + 2
        /\ devices[id].TokenBase = ComputeToken(devices[id], TokenOffsetStatus)

\* C10: Register with an ID that is already registered returns an error and
\* leaves the ID map, the token index and the stored record unchanged; a
\* following GetDevice for the ID returns the first-registered device.
C10_DuplicateRegisterRejected ==
    /\ (regOp.op = "Register" /\ regOp.existed) =>
            /\ regOp.err
            /\ devices = regPre.devices
            /\ tokens = regPre.tokens
    /\ \A id \in DOMAIN devices : devices[id] = firstReg[id]
    /\ (regOp.op = "GetDevice" /\ regOp.id \in DOMAIN firstReg) =>
            /\ ~regOp.err
            /\ regOp.device = firstReg[regOp.id]

\* A second Register for a registered ID, carrying another record than the
\* one stored, has been attempted.
C10_Witness ==
    /\ regOp.op = "Register"
    /\ regOp.existed
    /\ regOp.device.Name # devices[regOp.id].Name

\* C7: an Evaluate that runs concurrently with policy loads decides from a
\* single policy, the one active before a load or one fully loaded: while
\* it holds the read lock no writer is in and the active policy stays the
\* one it found, the rules it walks are that policy's, and the decision it
\* returns is that policy's decision for its context.
C7_EvaluateSeesOnePolicy ==
    \A e \in Evaluators :
        /\ evals[e].pc \in {"range", "loop"} =>
              /\ mu.writer = NoHolder
              /\ policy = evals[e].seen
        /\ evals[e].pc = "loop" => evals[e].rules = evals[e].seen.Rules
        /\ evals[e].pc = "done" =>
              /\ evals[e].seen \in installed
              /\ evals[e].rules = evals[e].seen.Rules
              /\ evals[e].decision = Evaluate(evals[e].seen, evals[e].ctx)
        /\ \A pol \in installed :
              pol = NewEnginePolicy \/ Validate(hasRegistry, Registry, pol) = ""

\* An Evaluate has returned an allow decided from a loaded policy while a
\* load that validated another policy waits for the lock or has since
\* replaced the policy.
C7_Witness ==
    \E e \in Evaluators : \E l \in Loaders :
        /\ evals[e].pc = "done"
        /\ evals[e].decision.Effect = EffectAllow
        /\ loaders[l].pc \in {"waiting", "swap", "unlock", "done"}
        /\ loaders[l].err = ""
        /\ loaders[l].policy # evals[e].seen
        /\ Cardinality(installed) > 2

=============================================================================
